---------------------------- MODULE Spec2Model ----------------------------
(***************************************************************************)
(* A model of the dark-event analysis pipeline of backend/app:             *)
(*   - gap detection     (dark_event_detection.py,                          *)
(*                        enhanced_dark_detection.py)                       *)
(*   - region rule       (enhanced_dark_detection.classify_region)          *)
(*   - proximity index   (proximity_index.build_proximity_index)            *)
(*   - suspicion scoring (suspicion_scoring.score_all_events)               *)
(*                                                                         *)
(* Each stage has its own variables and its own specification; a stage's   *)
(* specification leaves the other stages' variables parked at their idle   *)
(* values.                                                                 *)
(*                                                                         *)
(* Units.  Timestamps of the gap detector are whole seconds.  Coordinates  *)
(* of fixes are hundredths of a degree; a midpoint (a+b)/2 is kept in      *)
(* two-hundredths of a degree, where it is the exact sum a+b.  A value     *)
(* rounded by Python's round(x, 2) is kept in hundredths, one rounded by   *)
(* round(x, 3) in thousandths.                                             *)
(***************************************************************************)
EXTENDS Integers, Sequences, FiniteSets, TLC

VARIABLES
    \* ---- gap detector ----
    df,                   \* the input DataFrame: a sequence of rows
    threshold_minutes,    \* the threshold_minutes argument
    dark_events_summary,  \* result of detect_dark_events
    enhanced_events,      \* result of detect_enhanced_dark_events
    detected,             \* which of the two detectors have run
    \* ---- region rule ----
    lat, lon,             \* arguments of classify_region (1/200 degree)
    region,               \* its result
    \* ---- proximity index ----
    prox_df,              \* the df argument of build_proximity_index
    save_every,           \* its save_every argument
    output_file,          \* the file at output_path
    partial_file,         \* the file at tmp_path (.._partial.json)
    pc,                   \* where the call stands
    bin_i,                \* the index i of the main loop (0-based, as in the code)
    proximity_events,     \* the list proximity_events (alias existing_events)
    processed_bins,       \* the set processed_bins
    runs,                 \* calls of build_proximity_index started so far
    hist,                 \* what earlier steps of the run did (for the claims)
    \* ---- suspicion scoring ----
    dark_events,          \* the list handed to score_all_events, updated in place
    scored,               \* whether score_all_events has run on it
    \* ---- context check ----
    context_events,       \* the dark_events argument of check_dark_event_context
    context_index,        \* its proximity_events argument
    df_ais,               \* its df_ais argument
    context_pc,           \* "ready", then "done" or "raised" (KeyError)
    \* ---- clustering ----
    cluster_events,       \* the dark_events argument of cluster_dark_zones
    cluster_summary,      \* the cluster_summary it returns
    cluster_pc,           \* "ready", then "done"
    \* ---- grid aggregation ----
    hexbin_events,        \* the dark_events argument of generate_hexbin_aggregation
    hexbin_data,          \* the hexbin_data it returns
    hexbin_pc,            \* "ready", then "done" or "raised" (IndexError)
    \* ---- coordination network (services/network_analyzer.py) ----
    suspicious_events,    \* the rows of the suspicious_events frame
    all_ais_data,         \* the rows of the all_ais_data frame
    network,              \* self.network: None or the graph
    coordinators,         \* what identify_coordinators returned
    net_pc,               \* "ready", "built", "identified" or "raised"
    \* ---- vessel network (network_analysis.py) ----
    contextualized_events, \* the dark_events main() loads
    vessel_network,       \* G of main(): None or the graph
    centrality_scores,    \* what analyze_network_centrality returned
    vessel_pc,            \* "ready", "built", "analyzed" or "raised"
    \* ---- comprehensive detector (services/comprehensive_detector.py) ----
    mpa_data,             \* the mpa_data frame the detector was constructed with
    fishing_data,         \* the rows of the fishing_data frame
    suspicious_segments,  \* the suspicious_events detect_illegal_activity returned
    vessel_profiles,      \* the frame calculate_vessel_risk_profile returned
    detector_pc,          \* "ready", "done", then "profiled"
    ais_df,               \* the rows of the frame given to detect_dark_periods
    dark_periods,         \* the rows of the frame detect_dark_periods returned
    period_pc             \* "ready", then "done"

darkVars   == <<df, threshold_minutes, dark_events_summary, enhanced_events, detected>>
regionVars == <<lat, lon, region>>
proxVars   == <<prox_df, save_every, output_file, partial_file, pc, bin_i,
                proximity_events, processed_bins, runs, hist>>
scoreVars  == <<dark_events, scored>>
contextVars == <<context_events, context_index, df_ais, context_pc>>
clusterVars == <<cluster_events, cluster_summary, cluster_pc>>
hexbinVars == <<hexbin_events, hexbin_data, hexbin_pc>>
netVars == <<suspicious_events, all_ais_data, network, coordinators, net_pc>>
vesselVars == <<contextualized_events, vessel_network, centrality_scores, vessel_pc>>
detectorVars == <<mpa_data, fishing_data, suspicious_segments, vessel_profiles, detector_pc>>
periodVars == <<ais_df, dark_periods, period_pc>>
vars       == <<darkVars, regionVars, proxVars, scoreVars, contextVars, clusterVars, hexbinVars, netVars, vesselVars, detectorVars, periodVars>>

notDarkVars   == <<regionVars, proxVars, scoreVars, contextVars, clusterVars, hexbinVars, netVars, vesselVars, detectorVars, periodVars>>
notRegionVars == <<darkVars, proxVars, scoreVars, contextVars, clusterVars, hexbinVars, netVars, vesselVars, detectorVars, periodVars>>
notProxVars   == <<darkVars, regionVars, scoreVars, contextVars, clusterVars, hexbinVars, netVars, vesselVars, detectorVars, periodVars>>
notScoreVars  == <<darkVars, regionVars, proxVars, contextVars, clusterVars, hexbinVars, netVars, vesselVars, detectorVars, periodVars>>
notContextVars == <<darkVars, regionVars, proxVars, scoreVars, clusterVars, hexbinVars, netVars, vesselVars, detectorVars, periodVars>>
notClusterVars == <<darkVars, regionVars, proxVars, scoreVars, contextVars, hexbinVars, netVars, vesselVars, detectorVars, periodVars>>
notHexbinVars == <<darkVars, regionVars, proxVars, scoreVars, contextVars, clusterVars, netVars, vesselVars, detectorVars, periodVars>>
notNetVars == <<darkVars, regionVars, proxVars, scoreVars, contextVars, clusterVars, hexbinVars, vesselVars, detectorVars, periodVars>>
notVesselVars == <<darkVars, regionVars, proxVars, scoreVars, contextVars, clusterVars, hexbinVars, netVars, detectorVars, periodVars>>
notDetectorVars == <<darkVars, regionVars, proxVars, scoreVars, contextVars, clusterVars, hexbinVars, netVars, vesselVars, periodVars>>
notPeriodVars == <<darkVars, regionVars, proxVars, scoreVars, contextVars, clusterVars, hexbinVars, netVars, vesselVars, detectorVars>>

(***************************************************************************)
(* Bounds and input sets                                                   *)
(***************************************************************************)
MaxRows == 3                       \* rows of a DataFrame handed to a detector
MaxFixes == 3                      \* rows of the frame handed to the proximity index
MaxRuns == 2                       \* calls of build_proximity_index on one frame
MaxEvents == 2                     \* events of a list handed to score_all_events

MMSIs       == {1, 2}
Times       == {0, 3600, 7201}                      \* seconds
Positions   == {<<1000, 2000>>, <<1010, 2010>>}     \* (LAT, LON), 1/100 degree
Thresholds  == {10, 60}                             \* minutes

Range(s) == {s[i] : i \in DOMAIN s}

Abs(x) == IF x < 0 THEN -x ELSE x

SeqsUpTo(S, n) == UNION {[1..k -> S] : k \in 0..n}

(***************************************************************************)
(* Python's round(x, ndigits) on a value num/den, in units of the last     *)
(* kept digit.  Off a tie the result is the nearest integer.  On an exact  *)
(* tie the float that stands for num/den lies a rounding error above or    *)
(* below the tie (0.0005 rounds to 0.001, 0.0125 to 0.012), so either      *)
(* neighbour can come out: RoundSet gives both.                            *)
(***************************************************************************)
RoundSet(num, den) ==
    LET fl == num \div den
        r2 == 2 * (num - fl * den)
    IN  IF r2 < den THEN {fl}
        ELSE IF r2 > den THEN {fl + 1}
        ELSE {fl, fl + 1}

(***************************************************************************)
(* classify_region (enhanced_dark_detection.py 49-75).                     *)
(* Arguments in 1/200 degree.                                              *)
(***************************************************************************)
Deg(d) == d * 200

\* the inner if/elif/elif of lines 63-68; with no branch taken the function
\* does not return there and goes on to line 72
NoReturn == "no return"

LonBandBelow180(lo) ==
    IF Deg(-180) <= lo /\ lo <= Deg(-80) THEN "Eastern Pacific"
    ELSE IF Deg(-80) <= lo /\ lo <= Deg(20) THEN "Atlantic"
    ELSE IF Deg(20) <= lo /\ lo < Deg(180) THEN "Indo-Pacific"
    ELSE NoReturn

LonBand(lo) ==
    IF Deg(-180) <= lo /\ lo <= Deg(-80) THEN "Eastern Pacific"
    ELSE IF Deg(-80) <= lo /\ lo <= Deg(20) THEN "Atlantic"
    ELSE IF Deg(20) <= lo /\ lo <= Deg(180) THEN "Indo-Pacific"
    ELSE NoReturn

classify_region_lat30_exclusive(la, lo) ==
    IF Deg(-90) <= la /\ la <= Deg(-30) THEN "Southern Ocean"
    ELSE IF Deg(30) < la /\ la <= Deg(70) THEN "Northern Pacific/Atlantic"
    ELSE IF Deg(-30) <= la /\ la <= Deg(30) /\ LonBand(lo) /= NoReturn
         THEN LonBand(lo)
    ELSE IF Abs(la) > Deg(60) THEN "High Latitude Zone"
    ELSE "Open Ocean"

classify_region(la, lo) ==
    IF Deg(-90) <= la /\ la <= Deg(-30) THEN "Southern Ocean"
    ELSE IF Deg(30) <= la /\ la <= Deg(70) THEN "Northern Pacific/Atlantic"
    ELSE IF Deg(-30) <= la /\ la <= Deg(30) /\ LonBand(lo) /= NoReturn
         THEN LonBand(lo)
    ELSE IF Abs(la) > Deg(60) THEN "High Latitude Zone"
    ELSE "Open Ocean"

(***************************************************************************)
(* Gap detector: shared steps of detect_dark_events and                    *)
(* detect_enhanced_dark_events.                                            *)
(***************************************************************************)
DarkFixes ==
    {[MMSI |-> m, BaseDateTime |-> t, LAT |-> p[1], LON |-> p[2]] :
        m \in MMSIs, t \in Times, p \in Positions}

\* df.sort_values(by=['MMSI', 'BaseDateTime']): the rows in ascending key
\* order, rows with equal keys in their order of arrival.
KeyLess(a, b) ==
    \/ a.MMSI < b.MMSI
    \/ a.MMSI = b.MMSI /\ a.BaseDateTime < b.BaseDateTime

KeyEq(a, b) == a.MMSI = b.MMSI /\ a.BaseDateTime = b.BaseDateTime

SortRank(s, i) ==
    1 + Cardinality({j \in DOMAIN s :
                        \/ KeyLess(s[j], s[i])
                        \/ KeyEq(s[j], s[i]) /\ j < i})

sort_values(s) ==
    [k \in 1..Len(s) |-> s[CHOOSE i \in DOMAIN s : SortRank(s, i) = k]]

\* df.groupby('MMSI')['BaseDateTime'].diff() on the sorted frame: the gap to
\* the previous row of the same vessel; NaT on a vessel's first row.
NaT == -1

\* df['BaseDateTime'].diff(), without the groupby
TimeDifferenceUngrouped(s, k) ==
    IF k > 1
    THEN s[k].BaseDateTime - s[k - 1].BaseDateTime
    ELSE NaT

TimeDifference(s, k) ==
    IF k > 1 /\ s[k - 1].MMSI = s[k].MMSI
    THEN s[k].BaseDateTime - s[k - 1].BaseDateTime
    ELSE NaT

\* df['TimeDifference'] > pd.Timedelta(minutes=threshold_minutes); a comparison
\* with NaT is False.
ExceedsThresholdInclusive(diff, minutes) == diff /= NaT /\ diff >= minutes * 60

ExceedsThreshold(diff, minutes) == diff /= NaT /\ diff > minutes * 60

\* the positions, in the sorted frame, of the rows kept by the filter
DarkRowIndices(s, minutes) ==
    {k \in DOMAIN s : ExceedsThreshold(TimeDifference(s, k), minutes)}

\* the elements of a finite set of integers, ascending
RECURSIVE Ascending(_)
Ascending(S) ==
    IF S = {} THEN <<>>
    ELSE LET m == CHOOSE x \in S : \A y \in S : x <= y
         IN  <<m>> \o Ascending(S \ {m})

(***************************************************************************)
(* detect_dark_events (dark_event_detection.py 10-49)                      *)
(***************************************************************************)
SummaryRow(s, k) ==
    [MMSI         |-> s[k].MMSI,
     GapStartTime |-> s[k].BaseDateTime,     \* renamed from BaseDateTime
     GapDuration  |-> TimeDifference(s, k)]

detect_dark_events(frame, minutes) ==
    LET s    == sort_values(frame)
        rows == Ascending(DarkRowIndices(s, minutes))
    IN  [n \in 1..Len(rows) |-> SummaryRow(s, rows[n])]

(***************************************************************************)
(* detect_enhanced_dark_events (enhanced_dark_detection.py 78-149)         *)
(***************************************************************************)
\* df[(df['MMSI'] == row['MMSI']) & (df['BaseDateTime'] < row['BaseDateTime'])]
\*   .tail(1): position of the last such row of the sorted frame, 0 if empty
PrevRecord(s, k) ==
    LET earlier == {j \in DOMAIN s : /\ s[j].MMSI = s[k].MMSI
                                     /\ s[j].BaseDateTime < s[k].BaseDateTime}
    IN  IF earlier = {} THEN 0
        ELSE CHOOSE j \in earlier : \A i \in earlier : j >= i

\* mid_lat = (start_lat + end_lat) / 2, in 1/200 degree
MidpointOfStart(a, b) == a + a

Midpoint(a, b) == a + b

\* the event records one (prev, row) pair can give: one per outcome of
\* round(duration_hours, 2)
EnhancedEvent(prev, row, hundredths) ==
    [mmsi           |-> row.MMSI,
     start          |-> prev.BaseDateTime,
     end            |-> row.BaseDateTime,
     region         |-> classify_region(Midpoint(prev.LAT, row.LAT),
                                        Midpoint(prev.LON, row.LON)),
     location       |-> <<Midpoint(prev.LAT, row.LAT), Midpoint(prev.LON, row.LON)>>,
     start_location |-> <<prev.LAT, prev.LON>>,
     end_location   |-> <<row.LAT, row.LON>>,
     duration_hours |-> hundredths]

\* duration_hours = (end - start).total_seconds() / 3600, then round(.., 2):
\* seconds / 36 hundredths of an hour
DurationHundredths(start, end) == RoundSet(end - start, 36)

EnhancedEventChoices(s, k) ==
    LET p == PrevRecord(s, k)
    IN  {EnhancedEvent(s[p], s[k], h) :
            h \in DurationHundredths(s[p].BaseDateTime, s[k].BaseDateTime)}

\* every list the loop over dark_events_df can build
detect_enhanced_dark_events(frame, minutes) ==
    LET s    == sort_values(frame)
        kept == {k \in DarkRowIndices(s, minutes) : PrevRecord(s, k) /= 0}
        rows == Ascending(kept)
        all  == UNION {EnhancedEventChoices(s, k) : k \in kept}
    IN  {ev \in [1..Len(rows) -> all] :
            \A n \in 1..Len(rows) : ev[n] \in EnhancedEventChoices(s, rows[n])}

(***************************************************************************)
(* build_proximity_index (proximity_index.py 32-159)                       *)
(*                                                                         *)
(* The fixes handed to it lie on one meridian, where the haversine         *)
(* distance of two points is R times their difference in latitude.         *)
(***************************************************************************)
TimeWindowMinutes == 10            \* time_window_minutes
DistanceThresholdKm == 20          \* distance_threshold_km
MaxPointsPerBin == 5000            \* max_points_per_bin

ProxFixes ==
    {[MMSI |-> m, BaseDateTime |-> t, LAT |-> la, LON |-> 2000] :
        m \in MMSIs, t \in {0, 300, 600}, la \in {1000, 1010, 1040}}

\* a file: absent, complete with the list json.dump wrote, or truncated (opened
\* with "w" and not yet written to its end: json.load raises on it)
AbsentFile == [state |-> "absent", data |-> <<>>]
TruncatedFile == [state |-> "truncated", data |-> <<>>]
CompleteFile(events) == [state |-> "complete", data |-> events]

\* time_bin.isoformat() and str(time_bin) of a pandas Timestamp: the same
\* instant written with a "T" and with a blank between date and time
isoformat(t) == [sep |-> "T", instant |-> t]
str(t) == [sep |-> " ", instant |-> t]

\* df["BaseDateTime"].dt.floor(f"{time_window_minutes}min")
TimeBin(t) == (t \div (TimeWindowMinutes * 60)) * (TimeWindowMinutes * 60)

\* df.sort_values("BaseDateTime").reset_index(drop=True)
TimeSortRank(s, k) ==
    1 + Cardinality({j \in DOMAIN s :
                        \/ s[j].BaseDateTime < s[k].BaseDateTime
                        \/ s[j].BaseDateTime = s[k].BaseDateTime /\ j < k})

sort_by_time(s) ==
    [n \in 1..Len(s) |-> s[CHOOSE k \in DOMAIN s : TimeSortRank(s, k) = n]]

\* df["TimeBin"].unique(): the bins in order of first appearance in the
\* sorted frame
time_bins(frame) == Ascending({TimeBin(r.BaseDateTime) : r \in Range(frame)})

\* df[df["TimeBin"] == time_bin]
SelectBin(s, b) ==
    LET keep == Ascending({k \in DOMAIN s : TimeBin(s[k].BaseDateTime) = b})
    IN  [n \in 1..Len(keep) |-> s[keep[n]]]

\* bin_data.sample(max_points_per_bin, random_state=42): some max_points_per_bin
\* of the rows, in some order
SampleBin(rows) ==
    IF Len(rows) > MaxPointsPerBin
    THEN {[n \in 1..MaxPointsPerBin |-> rows[f[n]]] :
            f \in {g \in [1..MaxPointsPerBin -> DOMAIN rows] :
                      \A x, y \in 1..MaxPointsPerBin : x /= y => g[x] /= g[y]}}
    ELSE {rows}

\* 6371.0 * (2 * arcsin(sqrt(a))) for two points of one meridian, in
\* millionths of a km: 6371 * pi / 180 / 100 km per hundredth of a degree
MicroKmPerCentidegree == 1111949

HaversineMicroKm(a, b) == Abs(a.LAT - b.LAT) * MicroKmPerCentidegree

\* tree.query_radius(coords_rad, r=radius_rad): the points within the radius
WithinRadius(a, b) == HaversineMicroKm(a, b) <= DistanceThresholdKm * 1000000

\* pair_list: for idx in order, its neighbours nbr > idx
PairSet(rows) ==
    {p \in (DOMAIN rows) \X (DOMAIN rows) :
        /\ p[1] < p[2]
        /\ WithinRadius(rows[p[1]], rows[p[2]])}

PairRank(P, p) ==
    1 + Cardinality({q \in P : q[1] < p[1] \/ (q[1] = p[1] /\ q[2] < p[2])})

PairList(rows) ==
    LET P == PairSet(rows)
    IN  [n \in 1..Cardinality(P) |-> CHOOSE p \in P : PairRank(P, p) = n]

\* one record of prox_df; distance_km = np.round(distance_km, 2), in
\* hundredths of a km
Encounter(b, v1, v2, hundredths) ==
    [time_bin         |-> isoformat(b),
     vessel1_mmsi     |-> v1.MMSI,
     vessel2_mmsi     |-> v2.MMSI,
     vessel1_location |-> <<v1.LAT, v1.LON>>,
     vessel2_location |-> <<v2.LAT, v2.LON>>,
     distance_km      |-> hundredths]

EncounterChoices(b, v1, v2) ==
    {Encounter(b, v1, v2, h) : h \in RoundSet(HaversineMicroKm(v1, v2), 10000)}

\* prox_df.to_dict(orient="records") for the pairs of one bin
EncounterLists(b, rows, pairs) ==
    LET all == UNION {EncounterChoices(b, rows[pairs[n][1]], rows[pairs[n][2]]) :
                         n \in DOMAIN pairs}
    IN  {enc \in [DOMAIN pairs -> all] :
            \A n \in DOMAIN pairs :
                enc[n] \in EncounterChoices(b, rows[pairs[n][1]], rows[pairs[n][2]])}

\* what one pass of the loop body appends for bin b (lines 92-136): nothing
\* when the bin has fewer than two points or no pair
BinEncounterLists(frame, b) ==
    LET bin_data == SelectBin(sort_by_time(frame), b)
    IN  IF Len(bin_data) < 2 THEN {<<>>}
        ELSE UNION {IF PairList(rows) = <<>> THEN {<<>>}
                    ELSE EncounterLists(b, rows, PairList(rows)) :
                        rows \in SampleBin(bin_data)}

\* i % save_every == 0 or i == len(time_bins) - 1
CheckpointDue(frame, k, every) ==
    k % every = 0 \/ k = Len(time_bins(frame)) - 1

\* lines 59-69: what the call starts from
LoadExisting(resume, file) ==
    IF resume /\ file.state = "complete" THEN file.data ELSE <<>>

LoadedBins(existing) ==
    IF existing /= <<>> THEN {e.time_bin : e \in Range(existing)} ELSE {}

(***************************************************************************)
(* suspicion_scoring.py: calculate_eez_proximity,                          *)
(* calculate_multi_factor_score, score_all_events                          *)
(*                                                                         *)
(* duration_hours is in hundredths of an hour, coverage_reliability and    *)
(* the stored scores in thousandths, latitudes in hundredths of a degree;  *)
(* the scores before rounding are in ten-thousandths, where every one of   *)
(* them is a whole number for these inputs.                                *)
(***************************************************************************)
Min(a, b) == IF a <= b THEN a ELSE b

\* dict.get(key, default)
Get(d, key, default) == IF key \in DOMAIN d THEN d[key] ELSE default

\* 0.1 inside a coastal zone, 1.0 outside, in thousandths
calculate_eez_proximity(la, lo) ==
    IF \/ 3500 <= la /\ la <= 4500
       \/ -4500 <= la /\ la <= -3500
       \/ -1000 <= la /\ la <= 1000
    THEN 100
    ELSE 1000

\* min(event['duration_hours'] / 6.0, 1.0) * 0.3
DurationScore(event) == (Min(event.duration_hours, 600) * 3000) \div 600

\* (1 - event.get('coverage_reliability', 0.5)) * 0.2
CoverageScore(event) ==
    ((1000 - Get(event, "coverage_reliability", 500)) * 2000) \div 1000

\* (1 - eez_proximity) * 0.2
EezScore(event) ==
    ((1000 - calculate_eez_proximity(event.location[1], event.location[2])) * 2000)
        \div 1000

\* ((0.5 if is_fishing else 0) + (0.5 if has_fishing_nearby else 0)) * 0.2
FishingScore(event) ==
    LET is_fishing == Get(event, "is_fishing_vessel", FALSE)
        has_fishing_nearby == Get(event, "continuously_transmitting_nearby", 0) > 0
    IN  (((IF is_fishing THEN 5 ELSE 0) + (IF has_fishing_nearby THEN 5 ELSE 0))
            * 2000) \div 10

\* min(repeat_count / 10.0, 1.0) * 0.1
RepeatScore(event, repeat_offender_counts) ==
    (Min(Get(repeat_offender_counts, event.mmsi, 0), 10) * 1000) \div 10

TotalScoreWithoutRepeat(duration, coverage, eez, fishing, repeat) ==
    duration + coverage + eez + fishing

\* duration_score + coverage_score + eez_score + fishing_score + repeat_score
TotalScore(duration, coverage, eez, fishing, repeat) ==
    duration + coverage + eez + fishing + repeat

\* the dicts calculate_multi_factor_score can return: each round(x, 3) is
\* taken on its own
calculate_multi_factor_score(event, repeat_offender_counts) ==
    LET duration_score == DurationScore(event)
        coverage_score == CoverageScore(event)
        eez_score == EezScore(event)
        fishing_score == FishingScore(event)
        repeat_score == RepeatScore(event, repeat_offender_counts)
        total_score == TotalScore(duration_score, coverage_score, eez_score,
                                  fishing_score, repeat_score)
    IN  {[total_score    |-> t,
          duration_score |-> d,
          coverage_score |-> c,
          eez_score      |-> e,
          fishing_score  |-> f,
          repeat_score   |-> r] :
            t \in RoundSet(total_score, 10),
            d \in RoundSet(duration_score, 10),
            c \in RoundSet(coverage_score, 10),
            e \in RoundSet(eez_score, 10),
            f \in RoundSet(fishing_score, 10),
            r \in RoundSet(repeat_score, 10)}

\* repeat_counts[event['mmsi']] += 1 over the list
repeat_counts(events) ==
    [m \in {events[k].mmsi : k \in DOMAIN events} |->
        Cardinality({k \in DOMAIN events : events[k].mmsi = m})]

\* event.update(scores); event['is_highly_suspicious'] = total_score >= 0.7
ScoredEvent(event, scores) ==
    [key \in DOMAIN event \cup DOMAIN scores \cup {"is_highly_suspicious"} |->
        IF key = "is_highly_suspicious" THEN scores.total_score >= 700
        ELSE IF key \in DOMAIN scores THEN scores[key]
        ELSE event[key]]

\* dark_events.sort(key=lambda x: x['total_score'], reverse=True): stable
ScoreSortRank(s, k) ==
    1 + Cardinality({j \in DOMAIN s :
                        \/ s[j].total_score > s[k].total_score
                        \/ s[j].total_score = s[k].total_score /\ j < k})

sort_by_score(s) ==
    [n \in 1..Len(s) |-> s[CHOOSE k \in DOMAIN s : ScoreSortRank(s, k) = n]]

\* lines 100-103 for the first k events of the list
RECURSIVE UpdatedEvents(_, _, _)
UpdatedEvents(events, counts, k) ==
    IF k = 0 THEN {<<>>}
    ELSE {Append(head, ScoredEvent(events[k], scores)) :
            head \in UpdatedEvents(events, counts, k - 1),
            scores \in calculate_multi_factor_score(events[k], counts)}

\* the lists score_all_events can return
score_all_events(events) ==
    {sort_by_score(updated) :
        updated \in UpdatedEvents(events, repeat_counts(events), Len(events))}

\* the events a list handed to score_all_events is made of: as the context
\* step leaves them, and as the detector emits them (without the keys that
\* step and the fishing match add)
ContextEvents ==
    {[mmsi |-> m, start |-> 0, duration_hours |-> h, location |-> <<la, 2000>>,
      is_fishing_vessel |-> fv, continuously_transmitting_nearby |-> n,
      coverage_reliability |-> 667] :
        m \in MMSIs, h \in {1, 700}, la \in {0, 2000}, fv \in BOOLEAN,
        n \in {0, 1}}
    \cup
    {[mmsi |-> m, start |-> st, duration_hours |-> h, location |-> <<la, 2000>>] :
        m \in MMSIs, st \in {0, 3600}, h \in {1, 700}, la \in {0, 2000}}

ScoreIdle ==
    /\ dark_events = <<>>
    /\ scored = FALSE

\* the record of what a call has done so far, kept for the claims
HistInit ==
    [checkpointed |-> FALSE,   \* this call completed a checkpoint write
     ckpt_events  |-> <<>>,    \* the list that write stored
     ckpt_bins    |-> {},      \* the bins visited up to it
     since_ckpt   |-> 0,       \* bins visited since (or since the call began)
     resumed      |-> FALSE,   \* this call has resume=True and follows a call
                               \* killed after a checkpoint
     prior_events |-> <<>>,    \* ckpt_events of that killed call
     prior_bins   |-> {},      \* ckpt_bins of that killed call
     rerun        |-> FALSE,   \* this call has resume=True and follows a call
                               \* that returned
     prior_result |-> <<>>,    \* the list that call returned
     loaded       |-> <<>>,    \* existing_events of this call
     revisited    |-> {}]      \* bins whose body this call ran (not skipped)

ProxIdle ==
    /\ prox_df = <<>>
    /\ save_every = 1
    /\ output_file = AbsentFile
    /\ partial_file = AbsentFile
    /\ pc = "idle"
    /\ bin_i = 0
    /\ proximity_events = <<>>
    /\ processed_bins = {}
    /\ runs = 0
    /\ hist = HistInit

(***************************************************************************)
(* proximity_index.py: get_vessels_near_location                           *)
(* dark_event_context.py: check_dark_event_context                         *)
(*                                                                         *)
(* All positions lie on the meridian of the proximity model.               *)
(***************************************************************************)
RadiusKm == 20                     \* radius_km
ContextWindowMinutes == 15         \* time_window_minutes

Max(a, b) == IF a >= b THEN a ELSE b

\* pd.to_datetime of a string written by isoformat() or str()
to_datetime(stamp) == stamp.instant

\* haversine_distance for two points of one meridian, in millionths of a km
haversine_distance(lat1, lon1, lat2, lon2) ==
    Abs(lat1 - lat2) * MicroKmPerCentidegree

\* abs(event_time - target_time) > time_delta: the encounter is passed over
OutsideWindow(encounter, target_time) ==
    Abs(to_datetime(encounter.time_bin) - target_time) > ContextWindowMinutes * 60

VesselKeys == <<"vessel1", "vessel2">>

VesselField(vessel_key, field) ==
    IF vessel_key = "vessel1"
    THEN (CASE field = "location" -> "vessel1_location"
            [] field = "mmsi" -> "vessel1_mmsi"
            [] field = "name" -> "vessel1_name")
    ELSE (CASE field = "location" -> "vessel2_location"
            [] field = "mmsi" -> "vessel2_mmsi"
            [] field = "name" -> "vessel2_name")

\* dist <= radius_km for one vessel of an encounter
VesselInRadius(encounter, vessel_key, target_location) ==
    LET loc == encounter[VesselField(vessel_key, "location")]
    IN  haversine_distance(target_location[1], target_location[2], loc[1], loc[2])
            <= RadiusKm * 1000000

\* event[f"{vessel_key}_name"] raises KeyError when the key is not there
RaisesKeyError(encounter, vessel_key) ==
    VesselField(vessel_key, "name") \notin DOMAIN encounter

\* the dict appended to nearby; the rounding of the distance has no tie at
\* the distances of the model
NearbyVessel(encounter, vessel_key, target_location) ==
    LET loc == encounter[VesselField(vessel_key, "location")]
        dist == haversine_distance(target_location[1], target_location[2],
                                   loc[1], loc[2])
    IN  [mmsi        |-> encounter[VesselField(vessel_key, "mmsi")],
         name        |-> encounter[VesselField(vessel_key, "name")],
         location    |-> loc,
         distance_km |-> CHOOSE h \in RoundSet(dist, 10000) : TRUE,
         time        |-> encounter.time_bin]

\* the vessel keys of the first k encounters on which the loop appends
RECURSIVE NearbyHits(_, _, _, _)
NearbyHits(index, target_location, target_time, k) ==
    IF k = 0 THEN <<>>
    ELSE NearbyHits(index, target_location, target_time, k - 1) \o
         (IF OutsideWindow(index[k], target_time) THEN <<>>
          ELSE SelectSeq(<<<<k, "vessel1">>, <<k, "vessel2">>>>,
                         LAMBDA hit : VesselInRadius(index[k], hit[2], target_location)))

\* "Remove duplicates": the first entry of every (mmsi, time)
RemoveDuplicates(nearby) ==
    LET keep == Ascending({n \in DOMAIN nearby :
                    ~ \E j \in 1..(n - 1) :
                        /\ nearby[j].mmsi = nearby[n].mmsi
                        /\ nearby[j].time = nearby[n].time})
    IN  [n \in DOMAIN keep |-> nearby[keep[n]]]

\* get_vessels_near_location: whether it raises, and the list it returns
get_vessels_near_location(index, target_location, target_time) ==
    LET hits == NearbyHits(index, target_location, target_time, Len(index))
        raised == \E n \in DOMAIN hits : RaisesKeyError(index[hits[n][1]], hits[n][2])
    IN  [raised |-> raised,
         value  |-> IF raised THEN <<>>
                    ELSE RemoveDuplicates(
                           [n \in DOMAIN hits |->
                              NearbyVessel(index[hits[n][1]], hits[n][2],
                                           target_location)])]

\* dict.update(other)
Update(d, other) ==
    [key \in DOMAIN d \cup DOMAIN other |->
        IF key \in DOMAIN other THEN other[key] ELSE d[key]]

DiscardNothing(S, x) == S

\* set.discard(x)
Discard(S, x) == S \ {x}

\* the rows of df_ais of one vessel after start_time and before end_time
StrictTransmissions(ais, nearby_mmsi, start_time, end_time) ==
    {k \in DOMAIN ais :
        /\ ais[k].MMSI = nearby_mmsi
        /\ ais[k].BaseDateTime > start_time
        /\ ais[k].BaseDateTime < end_time}

\* the rows of df_ais of one vessel from start_time to end_time, both included
VesselTransmissions(ais, nearby_mmsi, start_time, end_time) ==
    {k \in DOMAIN ais :
        /\ ais[k].MMSI = nearby_mmsi
        /\ ais[k].BaseDateTime >= start_time
        /\ ais[k].BaseDateTime <= end_time}

\* the orders in which `for nearby_mmsi in unique_nearby_vessels` can visit a set
IterationOrders(S) ==
    {order \in [1..Cardinality(S) -> S] :
        \A j, k \in DOMAIN order : j /= k => order[j] /= order[k]}

\* 0.5 * coverage_reliability + 0.3 * min(duration_hours / 3.0, 1.0)
\*   + 0.2 * (1 if is_fishing_vessel else 0), as a fraction over 3000 * nearby
\* where coverage_reliability = transmitting / nearby
ConfidenceNumerator(event, transmitting, nearby) ==
    1500 * transmitting
    + 3 * nearby * Min(event.duration_hours, 300)
    + 600 * nearby * (IF Get(event, "is_fishing_vessel", FALSE) THEN 1 ELSE 0)

ConfidenceDenominator(nearby) == 3000 * nearby

\* confidence_score >= 0.6; at exactly 0.6 the float sum decides
HighConfidenceChoices(num, den) ==
    IF 10 * num > 6 * den THEN {TRUE}
    ELSE IF 10 * num < 6 * den THEN {FALSE}
    ELSE BOOLEAN

\* lines 38-108 for one event: whether a lookup raises, and the dicts the
\* event can be updated with
EventContext(event, index, ais) ==
    LET start_time == to_datetime(event.start)
        end_time == to_datetime(event.end)
        nearby_at_start == get_vessels_near_location(index, event.location, start_time)
        nearby_at_end == get_vessels_near_location(index, event.location, end_time)
        both == nearby_at_start.value \o nearby_at_end.value
        unique_nearby_vessels == Discard({both[n].mmsi : n \in DOMAIN both}, event.mmsi)
        transmitting_vessels ==
            {m \in unique_nearby_vessels :
                VesselTransmissions(ais, m, start_time, end_time) /= {}}
        nearby == Max(Cardinality(unique_nearby_vessels), 1)
        transmitting == Cardinality(transmitting_vessels)
        num == ConfidenceNumerator(event, transmitting, nearby)
        den == ConfidenceDenominator(nearby)
    IN  [raised  |-> nearby_at_start.raised \/ nearby_at_end.raised,
         updates |->
            {[nearby_vessels_at_start |-> Len(nearby_at_start.value),
              nearby_vessels_at_end |-> Len(nearby_at_end.value),
              unique_nearby_vessels |-> Cardinality(unique_nearby_vessels),
              continuously_transmitting_nearby |-> transmitting,
              coverage_reliability |-> coverage,
              confidence_score |-> confidence,
              high_confidence |-> high,
              nearby_vessel_details |->
                  [n \in 1..Min(5, transmitting) |->
                      [mmsi |-> order[n],
                       transmission_count |->
                           Cardinality(VesselTransmissions(ais, order[n],
                                                           start_time, end_time))]]] :
                coverage \in RoundSet(1000 * transmitting, nearby),
                confidence \in RoundSet(1000 * num, den),
                high \in HighConfidenceChoices(num, den),
                order \in IterationOrders(transmitting_vessels)}]

\* check_dark_event_context on the first k events: the events are updated in
\* place, so a KeyError leaves the earlier ones updated and the rest as they were
RECURSIVE ContextOutcomes(_, _, _, _)
ContextOutcomes(events, index, ais, k) ==
    IF k = 0 THEN {[raised |-> FALSE, events |-> <<>>]}
    ELSE LET context == EventContext(events[k], index, ais)
         IN  UNION {IF before.raised \/ context.raised
                    THEN {[raised |-> TRUE, events |-> Append(before.events, events[k])]}
                    ELSE {[raised |-> FALSE,
                           events |-> Append(before.events, Update(events[k], u))] :
                             u \in context.updates} :
                       before \in ContextOutcomes(events, index, ais, k - 1)}

check_dark_event_context(events, index, ais) ==
    ContextOutcomes(events, index, ais, Len(events))

\* inputs of the context check: events as the detector emits them, encounters
\* between vessel 1 and another vessel with or without name keys, and the
\* fixes of the other vessels
MaxEncounters == 2                 \* encounters of a proximity index handed over

ContextInputEvents ==
    {[mmsi |-> m, start |-> isoformat(0), end |-> isoformat(3600),
      location |-> <<1000, 2000>>, duration_hours |-> h] :
        m \in MMSIs, h \in {100}}

ContextEncounters ==
    {Encounter(b, [MMSI |-> 1, LAT |-> 1000, LON |-> 2000],
                  [MMSI |-> m, LAT |-> la, LON |-> 2000],
               CHOOSE h \in RoundSet(Abs(la - 1000) * MicroKmPerCentidegree, 10000) : TRUE) :
        b \in {0, 1800, 3600}, m \in {2, 3}, la \in {1000, 1040}}

WithNames(encounter) ==
    Update(encounter, [vessel1_name |-> "VESSEL A", vessel2_name |-> "VESSEL B"])

\* indexes whose encounters carry names, and indexes of at most one encounter
\* as build_proximity_index emits it
ContextIndexes ==
    {[n \in DOMAIN index |-> WithNames(index[n])] :
        index \in SeqsUpTo(ContextEncounters, MaxEncounters)}
    \cup SeqsUpTo(ContextEncounters, 1)

AisFixes ==
    {[MMSI |-> 2, BaseDateTime |-> 1800],
     [MMSI |-> 3, BaseDateTime |-> 3600],
     [MMSI |-> 3, BaseDateTime |-> 5000]}

\* frames as preprocessing leaves them: sorted by (MMSI, BaseDateTime)
AisFrames ==
    {frame \in SeqsUpTo(AisFixes, Cardinality(AisFixes)) :
        \A j, k \in DOMAIN frame : j < k => KeyLess(frame[j], frame[k])}

ContextIdle ==
    /\ context_events = <<>>
    /\ context_index = <<>>
    /\ df_ais = <<>>
    /\ context_pc = "idle"

(***************************************************************************)
(* suspicion_scoring.py: cluster_dark_zones                                *)
(*                                                                         *)
(* Locations are in hundredths of a degree, total_score in thousandths.    *)
(***************************************************************************)
EpsKm == 50                        \* eps_km
MinSamples == 3                    \* min_samples
HotspotMinEvents == 10             \* len(events) >= 10
HotspotMinScore == 600             \* avg_score >= 0.6, in thousandths

\* euclidean distance <= eps_degrees = eps_km / 111.0, squared on both sides
\* (distances in hundredths of a degree)
WithinEps(p, q) ==
    ((p[1] - q[1]) * (p[1] - q[1]) + (p[2] - q[2]) * (p[2] - q[2])) * 111 * 111
        <= (EpsKm * 100) * (EpsKm * 100)

\* DBSCAN: the neighbourhood of every point (itself included) and the core
\* points
EpsNeighbours(events) ==
    [k \in DOMAIN events |->
        {j \in DOMAIN events : WithinEps(events[j].location, events[k].location)}]

CorePoints(neighbours) ==
    {k \in DOMAIN neighbours : Cardinality(neighbours[k]) >= MinSamples}

\* the core points reachable from the points reached through core points
RECURSIVE CoreReach(_, _, _)
CoreReach(neighbours, core, reached) ==
    LET more == core \cap UNION {neighbours[k] : k \in reached}
    IN  IF more \subseteq reached THEN reached
        ELSE CoreReach(neighbours, core, reached \cup more)

Least(S) == CHOOSE x \in S : \A y \in S : x <= y

\* clustering.fit_predict(locations): clusters are numbered in the order of
\* their first core point; a core point has the label of its cluster, a border
\* point that of the first cluster with a core point in its neighbourhood, any
\* other point -1
fit_predict(events) ==
    LET neighbours == EpsNeighbours(events)
        core == CorePoints(neighbours)
        seed == [k \in core |-> Least(CoreReach(neighbours, core, {k}))]
        seeds == {seed[k] : k \in core}
        label == [k \in core |-> Cardinality({other \in seeds : other < seed[k]})]
    IN  [k \in DOMAIN events |->
            IF k \in core THEN label[k]
            ELSE LET near == {label[j] : j \in neighbours[k] \cap core}
                 IN  IF near = {} THEN -1 ELSE Least(near)]

\* avg_score >= 0.6: the float mean decides when the mean is exactly 0.6
MeanReaches(total, count, least) ==
    IF total > least * count THEN {TRUE}
    ELSE IF total < least * count THEN {FALSE}
    ELSE BOOLEAN

Sum(f) ==
    LET RECURSIVE Partial(_)
        Partial(n) == IF n = 0 THEN 0 ELSE Partial(n - 1) + f[n]
    IN  Partial(Len(f))

\* the summaries lines 157-177 can build for the cluster with one label
ClusterSummaries(events, labels, label) ==
    LET members == Ascending({k \in DOMAIN events : labels[k] = label})
        count == Len(members)
        lats == Sum([n \in DOMAIN members |-> events[members[n]].location[1]])
        lons == Sum([n \in DOMAIN members |-> events[members[n]].location[2]])
        scores == Sum([n \in DOMAIN members |-> events[members[n]].total_score])
        vessel_mmsis == {events[members[n]].mmsi : n \in DOMAIN members}
    IN  {[cluster_id          |-> label,
          event_count         |-> count,
          center_location     |-> <<center_lat, center_lon>>,
          avg_suspicion_score |-> avg,
          unique_vessels      |-> Cardinality(vessel_mmsis),
          vessel_mmsis        |-> vessel_mmsis,
          is_hotspot          |-> count >= HotspotMinEvents /\ reaches] :
            center_lat \in RoundSet(100 * lats, count),
            center_lon \in RoundSet(100 * lons, count),
            avg \in RoundSet(scores, count),
            reaches \in MeanReaches(scores, count, HotspotMinScore)}

\* the labels other than -1 in the order in which the events first show them
LabelOrder(labels) ==
    LET firsts == Ascending({k \in DOMAIN labels :
                      /\ labels[k] /= -1
                      /\ \A j \in 1..(k - 1) : labels[j] /= labels[k]})
    IN  [n \in DOMAIN firsts |-> labels[firsts[n]]]

RECURSIVE SummaryLists(_, _, _, _)
SummaryLists(events, labels, order, n) ==
    IF n = 0 THEN {<<>>}
    ELSE {Append(head, summary) :
            head \in SummaryLists(events, labels, order, n - 1),
            summary \in ClusterSummaries(events, labels, order[n])}

\* cluster_summary.sort(key=lambda x: x['event_count'], reverse=True): stable
CountSortRank(s, k) ==
    1 + Cardinality({j \in DOMAIN s :
                        \/ s[j].event_count > s[k].event_count
                        \/ s[j].event_count = s[k].event_count /\ j < k})

sort_by_count(s) ==
    [n \in 1..Len(s) |-> s[CHOOSE k \in DOMAIN s : CountSortRank(s, k) = n]]

\* cluster_dark_zones: the pairs (dark_events, cluster_summary) it can return
cluster_dark_zones(events) ==
    IF events = <<>> THEN {[events |-> events, summary |-> <<>>]}
    ELSE LET labels == fit_predict(events)
             order == LabelOrder(labels)
         IN  {[events  |-> [k \in DOMAIN events |->
                               Update(events[k], [cluster_id |-> labels[k]])],
               summary |-> sort_by_count(summaries)] :
                 summaries \in SummaryLists(events, labels, order, Len(order))}

\* inputs of the clustering: scored events in the order score_all_events
\* leaves them, by total_score descending
MaxClusterEvents == 10             \* events of a list handed to cluster_dark_zones

ClusterEventKinds ==
    <<[mmsi |-> 1, location |-> <<1000, 2000>>, total_score |-> 900],
      [mmsi |-> 2, location |-> <<1100, 2000>>, total_score |-> 900],
      [mmsi |-> 1, location |-> <<1000, 2000>>, total_score |-> 600],
      [mmsi |-> 2, location |-> <<1000, 2000>>, total_score |-> 600],
      [mmsi |-> 1, location |-> <<1100, 2000>>, total_score |-> 600],
      [mmsi |-> 1, location |-> <<1000, 2000>>, total_score |-> 596]>>

Repeat(x, n) == [k \in 1..n |-> x]

\* the lists of at most n events made of the kinds from the j-th on, in the
\* order of the kinds
RECURSIVE ScoredLists(_, _)
ScoredLists(j, n) ==
    IF j > Len(ClusterEventKinds) \/ n = 0 THEN {<<>>}
    ELSE UNION {{Repeat(ClusterEventKinds[j], c) \o rest :
                    rest \in ScoredLists(j + 1, n - c)} : c \in 0..n}

ClusterIdle ==
    /\ cluster_events = <<>>
    /\ cluster_summary = <<>>
    /\ cluster_pc = "idle"

(***************************************************************************)
(* suspicion_scoring.py: generate_hexbin_aggregation                       *)
(*                                                                         *)
(* Coordinates are in hundredths of a degree, grid lines in tenths of a    *)
(* degree (the one decimal of the grid_id), scores in thousandths.         *)
(***************************************************************************)
HexResolution == 2                 \* hex_resolution

\* int(x): the float cut towards zero
IntTowardsZero(num, den) ==
    IF num >= 0 THEN num \div den ELSE -((-num) \div den)

FloorOf(num, den) == num \div den

\* int(lat / grid_size) with grid_size = 10 / (hex_resolution + 1) degrees
GridIndexFloored(coordinate) == FloorOf(coordinate * (HexResolution + 1), 1000)

GridIndex(coordinate) == IntTowardsZero(coordinate * (HexResolution + 1), 1000)

\* f"{index * grid_size:.1f}": the grid line in tenths of a degree
GridLine(index) == CHOOSE t \in RoundSet(100 * index, HexResolution + 1) : TRUE

\* grid_id = f"{grid_lat:.1f},{grid_lon:.1f}"
GridId(location) == <<GridLine(GridIndex(location[1])), GridLine(GridIndex(location[2]))>>

\* the grid ids in the order in which the events first fall into them (the
\* order of the keys of hexbins)
GridIdOrder(events) ==
    LET firsts == Ascending({k \in DOMAIN events :
                      \A j \in 1..(k - 1) :
                          GridId(events[j].location) /= GridId(events[k].location)})
    IN  [n \in DOMAIN firsts |-> GridId(events[firsts[n]].location)]

\* the dicts lines 222-230 can build for one grid cell
HexbinCells(events, grid_id) ==
    LET members == Ascending({k \in DOMAIN events : GridId(events[k].location) = grid_id})
        total_score == Sum([n \in DOMAIN members |-> events[members[n]].total_score])
    IN  {[grid_id             |-> grid_id,
          center              |-> grid_id,
          event_count         |-> Len(members),
          avg_suspicion_score |-> avg,
          unique_vessels      |-> Cardinality({events[members[n]].mmsi :
                                                  n \in DOMAIN members})] :
            avg \in RoundSet(total_score, Len(members))}

RECURSIVE HexbinLists(_, _, _)
HexbinLists(events, order, n) ==
    IF n = 0 THEN {<<>>}
    ELSE {Append(head, cell) :
            head \in HexbinLists(events, order, n - 1),
            cell \in HexbinCells(events, order[n])}

\* generate_hexbin_aggregation: whether it raises (hexbin_data[0] of an empty
\* list at line 237), and the lists it can return
generate_hexbin_aggregation(events) ==
    LET order == GridIdOrder(events)
    IN  IF order = <<>> THEN {[raised |-> TRUE, value |-> <<>>]}
        ELSE {[raised |-> FALSE, value |-> sort_by_count(cells)] :
                cells \in HexbinLists(events, order, Len(order))}

\* inputs of the aggregation
MaxHexEvents == 3                  \* events of a list handed to the aggregation

HexbinEvents ==
    {[mmsi |-> m, location |-> <<la, lo>>, total_score |-> sc] :
        m \in MMSIs, la \in {-100, 100, 400}, lo \in {-2000, 2000}, sc \in {500}}

HexbinIdle ==
    /\ hexbin_events = <<>>
    /\ hexbin_data = <<>>
    /\ hexbin_pc = "idle"

(***************************************************************************)
(* networkx.Graph: the nodes in insertion order, the attribute dict of     *)
(* every node, and the attribute dict of every edge.  An edge is the set   *)
(* of its end points, so (u, v) and (v, u) are one edge and a self-loop is *)
(* a set of one node.                                                      *)
(***************************************************************************)
Graph == [nodes |-> <<>>, attrs |-> <<>>, edges |-> <<>>]

\* self.network before build_network has run
None == [none |-> TRUE]

NodeSet(G) == {G.nodes[k] : k \in DOMAIN G.nodes}

has_node(G, n) == n \in NodeSet(G)

has_edge(G, u, v) == {u, v} \in DOMAIN G.edges

\* G.add_node(n, **attr): a new node joins at the end, a known one has its
\* attributes updated
add_node(G, n, attr) ==
    [nodes |-> IF has_node(G, n) THEN G.nodes ELSE Append(G.nodes, n),
     attrs |-> (n :> Update(Get(G.attrs, n, <<>>), attr)) @@ G.attrs,
     edges |-> G.edges]

\* an edge that is only added between two nodes of the graph
AddEdgeAmongNodes(G, u, v, attr) ==
    IF has_node(G, u) /\ has_node(G, v)
    THEN [G EXCEPT !.edges = ({u, v} :> Update(Get(G.edges, {u, v}, <<>>), attr)) @@ G.edges]
    ELSE G

\* G.add_edge(u, v, **attr): the end points join the graph when missing
add_edge(G, u, v, attr) ==
    LET with_nodes == add_node(add_node(G, u, <<>>), v, <<>>)
    IN  [with_nodes EXCEPT
            !.edges = ({u, v} :> Update(Get(G.edges, {u, v}, <<>>), attr)) @@ G.edges]

Neighbors(G, n) == {m \in NodeSet(G) : has_edge(G, n, m)} 

\* G.degree(n): a self-loop counts twice
Degree(G, n) == Cardinality(Neighbors(G, n) \ {n}) + (IF has_edge(G, n, n) THEN 2 ELSE 0)

(***************************************************************************)
(* services/network_analyzer.py: VesselNetworkAnalyzer.build_network       *)
(*                                                                         *)
(* Times are seconds, positions hundredths of a degree on one meridian,    *)
(* risk scores thousandths.                                                *)
(***************************************************************************)
ProximityThresholdKm == 50         \* proximity_threshold_km

\* metres of one degree of latitude on the WGS-84 ellipsoid: the least (at
\* the equator) and the most (at the poles)
MetresPerDegreeMin == 110574
MetresPerDegreeMax == 111694

\* geodesic(event_location, point_location).kilometers <= threshold_km, for
\* two places on one meridian: the answers the ellipsoid allows
WithinThreshold(lat1, lat2, threshold_km) ==
    LET d == Abs(lat1 - lat2)
    IN  {b \in BOOLEAN :
            \/ b /\ d * MetresPerDegreeMin <= threshold_km * 100000
            \/ ~b /\ d * MetresPerDegreeMax > threshold_km * 100000}

\* _find_nearby_vessels: the lists it can return, vessels in groupby order
find_nearby_vessels(event, ais, threshold_km) ==
    LET nearby_data == {k \in DOMAIN ais :
                           /\ ais[k].timestamp >= event.start_time
                           /\ ais[k].timestamp <= event.end_time}
        vessels == {ais[k].mmsi : k \in nearby_data}
        points(m) == {k \in nearby_data : ais[k].mmsi = m}
        can_be_near(m) == \E k \in points(m) :
                              TRUE \in WithinThreshold(event.start_lat, ais[k].lat, threshold_km)
        can_be_far(m) == \A k \in points(m) :
                              FALSE \in WithinThreshold(event.start_lat, ais[k].lat, threshold_km)
    IN  {Ascending(near) : near \in {S \in SUBSET vessels :
                                        /\ \A m \in S : can_be_near(m)
                                        /\ \A m \in vessels \ S : can_be_far(m)}}

AnyVessel(nearby_mmsi, mmsi) == TRUE

\* line 68: if nearby_mmsi != mmsi
IsOtherVessel(nearby_mmsi, mmsi) == nearby_mmsi /= mmsi

\* lines 69-79: the co-occurrence of one event with one nearby vessel
AddEncounter(G, mmsi, nearby_mmsi, event) ==
    LET encounter == [timestamp |-> event.start_time,
                      location  |-> <<event.start_lat, event.start_lon>>]
    IN  IF ~IsOtherVessel(nearby_mmsi, mmsi) THEN G
        ELSE IF has_edge(G, mmsi, nearby_mmsi)
        THEN [G EXCEPT !.edges[{mmsi, nearby_mmsi}] =
                 [weight     |-> @.weight + 1,
                  encounters |-> Append(@.encounters, encounter)]]
        ELSE add_edge(G, mmsi, nearby_mmsi,
                      [weight |-> 1, encounters |-> <<encounter>>])

RECURSIVE AddEncounters(_, _, _, _, _)
AddEncounters(G, mmsi, nearby_vessels, event, n) ==
    IF n = 0 THEN G
    ELSE AddEncounter(AddEncounters(G, mmsi, nearby_vessels, event, n - 1),
                      mmsi, nearby_vessels[n], event)

\* lines 47-58: the node of one vessel
VesselNode(G, mmsi, vessel_events) ==
    LET total_risk == Sum([n \in DOMAIN vessel_events |-> vessel_events[n].risk_score])
    IN  add_node(G, mmsi,
            [mmsi        |-> mmsi,
             vessel_type |-> Get(vessel_events[1], "vessel_type", "unknown"),
             event_count |-> Len(vessel_events),
             total_risk  |-> total_risk,
             avg_risk    |-> [sum |-> total_risk, count |-> Len(vessel_events)],
             is_fishing  |-> Get(vessel_events[1], "is_fishing", TRUE)])

\* lines 61-79: the events of one vessel from the n-th on
RECURSIVE VesselEncounters(_, _, _, _, _)
VesselEncounters(G, mmsi, vessel_events, ais, n) ==
    IF n > Len(vessel_events) THEN {G}
    ELSE UNION {VesselEncounters(
                    AddEncounters(G, mmsi, nearby, vessel_events[n], Len(nearby)),
                    mmsi, vessel_events, ais, n + 1) :
                nearby \in find_nearby_vessels(vessel_events[n], ais, ProximityThresholdKm)}

\* the rows of one vessel, in the order of the frame
VesselEvents(events, mmsi) ==
    LET rows == Ascending({k \in DOMAIN events : events[k].mmsi = mmsi})
    IN  [n \in DOMAIN rows |-> events[rows[n]]]

\* lines 45-79: the groups of groupby('mmsi') from the n-th on
RECURSIVE VesselGroups(_, _, _, _, _)
VesselGroups(G, groups, events, ais, n) ==
    IF n > Len(groups) THEN {G}
    ELSE LET vessel_events == VesselEvents(events, groups[n])
         IN  UNION {VesselGroups(H, groups, events, ais, n + 1) :
                     H \in VesselEncounters(VesselNode(G, groups[n], vessel_events),
                                            groups[n], vessel_events, ais, 1)}

\* build_network: the graphs it can return
build_network(events, ais) ==
    VesselGroups(Graph, Ascending({events[k].mmsi : k \in DOMAIN events}), events, ais, 1)

(***************************************************************************)
(* networkx centralities, as exact fractions [num, den]                    *)
(***************************************************************************)
RECURSIVE SumOver(_, _)
SumOver(S, f) ==
    IF S = {} THEN 0
    ELSE LET x == CHOOSE y \in S : TRUE
         IN  f[x] + SumOver(S \ {x}, f)

\* whether num/den > tnum/tden
Exceeds(q, tnum, tden) == q.num * tden > tnum * q.den

\* nx.degree_centrality: the degree over n - 1, and 1 for every node of a
\* graph of at most one node
degree_centrality(G) ==
    [n \in NodeSet(G) |->
        IF Len(G.nodes) <= 1 THEN [num |-> 1, den |-> 1]
        ELSE [num |-> Degree(G, n), den |-> Len(G.nodes) - 1]]

\* breadth-first search: the number of edges from the source to every node
\* it reaches
RECURSIVE Bfs(_, _, _, _)
Bfs(G, frontier, dist, d) ==
    IF frontier = {} THEN dist
    ELSE LET found == [m \in frontier |-> d] @@ dist
             next  == UNION {Neighbors(G, m) : m \in frontier} \ DOMAIN found
         IN  Bfs(G, next, found, d + 1)

Distances(G, s) == Bfs(G, {s}, <<>>, 0)

\* the number of shortest paths from s to v
RECURSIVE PathCount(_, _, _, _)
PathCount(G, dist, s, v) ==
    IF v = s THEN 1
    ELSE LET before == {u \in Neighbors(G, v) \cap DOMAIN dist : dist[u] = dist[v] - 1}
         IN  SumOver(before, [u \in before |-> PathCount(G, dist, s, u)])

\* a common multiple of the numbers of shortest paths between two nodes of
\* the graphs analysed, so that the shares of a node are whole numbers
PathScale == 12

\* nx.betweenness_centrality (normalized, undirected): over the ordered
\* pairs (s, t) of other nodes, the share of the shortest paths from s to t
\* that pass through the node, over (n - 1)(n - 2); 0 with at most two nodes
betweenness_centrality(G) ==
    LET N     == NodeSet(G)
        dist  == [s \in N |-> Distances(G, s)]
        sigma == [s \in N |-> [v \in DOMAIN dist[s] |-> PathCount(G, dist[s], s, v)]]
        share == [v \in N |-> [p \in {q \in (N \ {v}) \X (N \ {v}) : q[1] /= q[2]} |->
                     IF /\ v \in DOMAIN dist[p[1]]
                        /\ p[2] \in DOMAIN dist[p[1]]
                        /\ p[2] \in DOMAIN dist[v]
                        /\ dist[p[1]][v] + dist[v][p[2]] = dist[p[1]][p[2]]
                     THEN (sigma[p[1]][v] * sigma[v][p[2]] * PathScale) \div sigma[p[1]][p[2]]
                     ELSE 0]]
    IN  [v \in N |->
            IF Len(G.nodes) <= 2 THEN [num |-> 0, den |-> 1]
            ELSE [num |-> SumOver(DOMAIN share[v], share[v]),
                  den |-> (Len(G.nodes) - 1) * (Len(G.nodes) - 2) * PathScale]]

\* nx.closeness_centrality (wf_improved): the nodes reached over the sum of
\* their distances, times the fraction of the graph reached
closeness_centrality(G) ==
    [u \in NodeSet(G) |->
        LET sp    == Distances(G, u)
            totsp == SumOver(DOMAIN sp, sp)
        IN  IF totsp > 0 /\ Len(G.nodes) > 1
            THEN [num |-> (Cardinality(DOMAIN sp) - 1) * (Cardinality(DOMAIN sp) - 1),
                  den |-> totsp * (Len(G.nodes) - 1)]
            ELSE [num |-> 0, den |-> 1]]

(***************************************************************************)
(* services/network_analyzer.py: identify_coordinators                     *)
(***************************************************************************)
BridgeBeforeCentral(betweenness, degree) ==
    IF Exceeds(betweenness, 5, 100) THEN "BRIDGE_COORDINATOR"
    ELSE IF Exceeds(betweenness, 1, 10) /\ Exceeds(degree, 2, 10) THEN "CENTRAL_COORDINATOR"
    ELSE IF Exceeds(degree, 15, 100) THEN "HUB_COORDINATOR"
    ELSE "MINOR_COORDINATOR"

\* lines 297-306
_classify_coordinator_role(betweenness, degree) ==
    IF Exceeds(betweenness, 1, 10) /\ Exceeds(degree, 2, 10) THEN "CENTRAL_COORDINATOR"
    ELSE IF Exceeds(betweenness, 5, 100) THEN "BRIDGE_COORDINATOR"
    ELSE IF Exceeds(degree, 15, 100) THEN "HUB_COORDINATOR"
    ELSE "MINOR_COORDINATOR"

\* line 210: only vessels with a significant coordination role
IsCoordinator(betweenness, degree) ==
    Exceeds(betweenness, 1, 100) \/ Exceeds(degree, 1, 10)

\* lines 211-221: the dicts of one node; centralities in ten-thousandths,
\* the score in hundredths
CoordinatorDicts(G, node, betweenness, degree) ==
    {[mmsi                   |-> node,
      vessel_type            |-> Get(G.attrs[node], "vessel_type", "unknown"),
      betweenness_centrality |-> b,
      degree_centrality      |-> d,
      connections            |-> Degree(G, node),
      event_count            |-> Get(G.attrs[node], "event_count", 0),
      total_risk             |-> Get(G.attrs[node], "total_risk", 0),
      coordinator_score      |-> score,
      role                   |-> _classify_coordinator_role(betweenness, degree)] :
        b \in RoundSet(10000 * betweenness.num, betweenness.den),
        d \in RoundSet(10000 * degree.num, degree.den),
        score \in RoundSet(10000 * betweenness.num * degree.den
                               + 5000 * degree.num * betweenness.den,
                           betweenness.den * degree.den)}

\* lines 204-221: the lists built from the first n nodes
RECURSIVE CoordinatorLists(_, _, _, _)
CoordinatorLists(G, betweenness, degree, n) ==
    IF n = 0 THEN {<<>>}
    ELSE LET node == G.nodes[n]
         IN  IF ~IsCoordinator(betweenness[node], degree[node])
             THEN CoordinatorLists(G, betweenness, degree, n - 1)
             ELSE {Append(head, c) :
                     head \in CoordinatorLists(G, betweenness, degree, n - 1),
                     c \in CoordinatorDicts(G, node, betweenness[node], degree[node])}

\* line 224: sort(key=coordinator_score, reverse=True), a stable sort
CoordinatorSortRank(s, k) ==
    1 + Cardinality({j \in DOMAIN s :
                        \/ s[j].coordinator_score > s[k].coordinator_score
                        \/ s[j].coordinator_score = s[k].coordinator_score /\ j < k})

sort_by_coordinator_score(s) ==
    [n \in 1..Len(s) |-> s[CHOOSE k \in DOMAIN s : CoordinatorSortRank(s, k) = n]]

\* identify_coordinators: the lists it can return
identify_coordinators(G) ==
    {sort_by_coordinator_score(list) :
        list \in CoordinatorLists(G, betweenness_centrality(G), degree_centrality(G),
                                  Len(G.nodes))}

\* inputs of the network analyzer
MaxNetEvents == 2                  \* rows of the suspicious_events frame
MaxNetFixes == 2                   \* rows of the all_ais_data frame

NetLon == 2000

NetEvent(m, t0, t1, la) ==
    [mmsi |-> m, start_time |-> t0, end_time |-> t1,
     start_lat |-> la, start_lon |-> NetLon, risk_score |-> 500]

NetFix(m, t, la) == [mmsi |-> m, timestamp |-> t, lat |-> la, lon |-> NetLon]

NetEvents == {NetEvent(m, 0, t1, 1000) : m \in {1, 2}, t1 \in {0, 10}}

NetFixes ==
    {NetFix(m, t, 1000) : m \in {1, 2, 3}, t \in {0, 10}}
        \cup {NetFix(3, 0, 1100), NetFix(2, 10, 1040)}

\* two groups of five vessels, every two of a group near each other during
\* the dark periods of both, and one dark period of vessel 5 with vessel 6
\* nearby
CliqueEvents ==
    [n \in 1..5 |-> NetEvent(n, 0, 0, 1000)]
        \o [n \in 1..5 |-> NetEvent(n + 5, 100, 100, 1000)]
        \o <<NetEvent(5, 200, 200, 1000)>>

CliqueFixes ==
    [n \in 1..5 |-> NetFix(n, 0, 1000)]
        \o [n \in 1..5 |-> NetFix(n + 5, 100, 1000)]
        \o <<NetFix(6, 200, 1000)>>

NetIdle ==
    /\ suspicious_events = <<>>
    /\ all_ais_data = <<>>
    /\ network = None
    /\ coordinators = <<>>
    /\ net_pc = "idle"

(***************************************************************************)
(* network_analysis.py: build_vessel_network, analyze_network_centrality   *)
(***************************************************************************)
\* lines 39-50: the node of the vessel of a dark event
DarkVesselNode(G, event) ==
    IF ~has_node(G, event.mmsi)
    THEN add_node(G, event.mmsi,
             [vessel_name      |-> Get(event, "vessel_name", "Unknown"),
              is_fishing       |-> Get(event, "is_fishing_vessel", FALSE),
              dark_event_count |-> 1,
              total_suspicion  |-> Get(event, "total_score", 0)])
    ELSE [G EXCEPT !.attrs[event.mmsi] =
             [@ EXCEPT !.dark_event_count = @ + 1,
                       !.total_suspicion = @ + Get(event, "total_score", 0)]]

\* lines 54-70: one nearby vessel of a dark event
NearbyVesselEdge(G, vessel_mmsi, nearby_mmsi) ==
    LET with_node == IF has_node(G, nearby_mmsi) THEN G
                     ELSE add_node(G, nearby_mmsi,
                              [vessel_name      |-> "Unknown",
                               is_fishing       |-> FALSE,
                               dark_event_count |-> 0,
                               total_suspicion  |-> 0])
    IN  IF has_edge(with_node, vessel_mmsi, nearby_mmsi)
        THEN [with_node EXCEPT !.edges[{vessel_mmsi, nearby_mmsi}].weight = @ + 1]
        ELSE add_edge(with_node, vessel_mmsi, nearby_mmsi, [weight |-> 1])

RECURSIVE NearbyVesselEdges(_, _, _, _)
NearbyVesselEdges(G, vessel_mmsi, nearby_vessels, n) ==
    IF n = 0 THEN G
    ELSE NearbyVesselEdge(NearbyVesselEdges(G, vessel_mmsi, nearby_vessels, n - 1),
                          vessel_mmsi, nearby_vessels[n].mmsi)

\* lines 34-70: the graph after the first n dark events
RECURSIVE DarkEventGraph(_, _)
DarkEventGraph(events, n) ==
    IF n = 0 THEN Graph
    ELSE LET nearby_vessels == Get(events[n], "nearby_vessel_details", <<>>)
         IN  NearbyVesselEdges(DarkVesselNode(DarkEventGraph(events, n - 1), events[n]),
                               events[n].mmsi, nearby_vessels, Len(nearby_vessels))

\* build_vessel_network: the average degree printed at line 75 divides by
\* the number of nodes (ZeroDivisionError on a graph without nodes)
build_vessel_network(events) ==
    LET G == DarkEventGraph(events, Len(events))
    IN  IF Len(G.nodes) = 0 THEN [raised |-> TRUE, value |-> None]
        ELSE [raised |-> FALSE, value |-> G]

\* G.subgraph(nodes)
Subgraph(G, S) ==
    LET kept  == Ascending({k \in DOMAIN G.nodes : G.nodes[k] \in S})
        inner == {e \in DOMAIN G.edges : e \subseteq S}
    IN  [nodes |-> [n \in DOMAIN kept |-> G.nodes[kept[n]]],
         attrs |-> [n \in S |-> G.attrs[n]],
         edges |-> [e \in inner |-> G.edges[e]]]

\* the connected component of a node
Component(G, n) == DOMAIN Distances(G, n)

\* max(nx.connected_components(G), key=len): the first of the largest
largest_cc(G) ==
    LET first == CHOOSE k \in DOMAIN G.nodes :
                     /\ \A j \in DOMAIN G.nodes :
                           Cardinality(Component(G, G.nodes[j]))
                               <= Cardinality(Component(G, G.nodes[k]))
                     /\ \A j \in 1..(k - 1) :
                           Cardinality(Component(G, G.nodes[j]))
                               < Cardinality(Component(G, G.nodes[k]))
    IN  Component(G, G.nodes[first])

\* nx.is_connected
is_connected(G) == \A n \in NodeSet(G) : Component(G, n) = NodeSet(G)

\* lines 98-104: closeness on the graph, or on its largest component
ClosenessScores(G) ==
    IF is_connected(G) THEN closeness_centrality(G)
    ELSE closeness_centrality(Subgraph(G, largest_cc(G)))

\* lines 109-118: the dicts of one node, centralities in ten-thousandths
CentralityDicts(G, node, degree, betweenness, closeness) ==
    {[mmsi                   |-> node,
      vessel_name            |-> Get(G.attrs[node], "vessel_name", "Unknown"),
      degree_centrality      |-> d,
      betweenness_centrality |-> b,
      closeness_centrality   |-> c,
      dark_event_count       |-> Get(G.attrs[node], "dark_event_count", 0),
      total_suspicion        |-> Get(G.attrs[node], "total_suspicion", 0),
      is_fishing             |-> Get(G.attrs[node], "is_fishing", FALSE)] :
        d \in RoundSet(10000 * degree.num, degree.den),
        b \in RoundSet(10000 * betweenness.num, betweenness.den),
        c \in RoundSet(10000 * closeness.num, closeness.den)}

RECURSIVE CentralityLists(_, _, _, _, _)
CentralityLists(G, degree, betweenness, closeness, n) ==
    IF n = 0 THEN {<<>>}
    ELSE {Append(head, score) :
            head \in CentralityLists(G, degree, betweenness, closeness, n - 1),
            score \in CentralityDicts(G, G.nodes[n], degree[G.nodes[n]],
                                      betweenness[G.nodes[n]],
                                      Get(closeness, G.nodes[n], [num |-> 0, den |-> 1]))}

\* line 121: sort(key=betweenness_centrality, reverse=True), a stable sort
BetweennessSortRank(s, k) ==
    1 + Cardinality({j \in DOMAIN s :
                        \/ s[j].betweenness_centrality > s[k].betweenness_centrality
                        \/ s[j].betweenness_centrality = s[k].betweenness_centrality /\ j < k})

sort_by_betweenness(s) ==
    [n \in 1..Len(s) |-> s[CHOOSE k \in DOMAIN s : BetweennessSortRank(s, k) = n]]

\* analyze_network_centrality: nx.is_connected raises NetworkXPointlessConcept
\* on a graph without nodes
analyze_network_centrality(G) ==
    IF Len(G.nodes) = 0 THEN {[raised |-> TRUE, value |-> <<>>]}
    ELSE {[raised |-> FALSE, value |-> sort_by_betweenness(list)] :
            list \in CentralityLists(G, degree_centrality(G), betweenness_centrality(G),
                                     ClosenessScores(G), Len(G.nodes))}

\* inputs of the vessel network
MaxVesselEvents == 2               \* dark events main() loads

NearbyDetails == {<<>>, <<[mmsi |-> 2]>>, <<[mmsi |-> 3]>>, <<[mmsi |-> 2], [mmsi |-> 3]>>}

ContextualizedEvents ==
    {[mmsi |-> m, total_score |-> 500] : m \in MMSIs}
        \cup {[mmsi |-> m, total_score |-> 500, nearby_vessel_details |-> near] :
                 m \in MMSIs, near \in NearbyDetails}

VesselIdle ==
    /\ contextualized_events = <<>>
    /\ vessel_network = None
    /\ centrality_scores = <<>>
    /\ vessel_pc = "idle"

(***************************************************************************)
(* services/comprehensive_detector.py: detect_illegal_activity             *)
(*                                                                         *)
(* Times are seconds, speeds knots, positions hundredths of a degree on    *)
(* one meridian, distances from shore metres.  A risk is a whole number of *)
(* RiskUnit-ths, so that a gap of a whole number of seconds over 24 hours  *)
(* is exact; rounded risks are thousandths.                                *)
(***************************************************************************)
RiskUnit == 86400000

DarkPeriodThresholdSeconds == 10800    \* dark_period_threshold_hours = 3.0
MinSuspiciousSpeed == 2                \* min_suspicious_speed
MaxSuspiciousSpeed == 15               \* max_suspicious_speed

Tenths(k) == k * (RiskUnit \div 10)

\* lines 108-111
DarkPeriodRisk(gap) ==
    IF gap >= DarkPeriodThresholdSeconds THEN Min(gap, 86400) * (RiskUnit \div 86400) ELSE 0

\* lines 114-126
SpeedRisk(prev_row, curr_row) ==
    LET curr_speed == Get(curr_row, "speed", 0)
        prev_speed == Get(prev_row, "speed", 0)
        steady     == IF curr_speed < MinSuspiciousSpeed /\ curr_speed > 0 THEN Tenths(6)
                      ELSE IF curr_speed > MaxSuspiciousSpeed THEN Tenths(4)
                      ELSE 0
    IN  IF Abs(curr_speed - prev_speed) > 10 THEN Max(steady, Tenths(5)) ELSE steady

\* __init__(mpa_data=None): no frame, or a frame of protected areas; an
\* area may carry a geometry, here a band of latitudes
NoMpaData == [loaded |-> FALSE, rows |-> <<>>]

MpaFrame(rows) == [loaded |-> TRUE, rows |-> rows]

\* a fix lies in the geometry of one of the areas of the frame
InsideMpa(mpa, la, lo) ==
    \E k \in DOMAIN mpa.rows :
        /\ "geometry" \in DOMAIN mpa.rows[k]
        /\ la >= mpa.rows[k].geometry.lat_min
        /\ la <= mpa.rows[k].geometry.lat_max

\* _check_mpa_violation: False without a frame or with an empty one, and
\* the placeholder returns False for every place otherwise
check_mpa_violation(mpa, la, lo) ==
    IF ~mpa.loaded \/ mpa.rows = <<>> THEN FALSE ELSE FALSE

\* lines 129-132: in_mpa
InMpa(mpa, curr_row) ==
    IF mpa.loaded /\ mpa.rows /= <<>>
    THEN check_mpa_violation(mpa, curr_row.lat, curr_row.lon)
    ELSE FALSE

\* lines 129-135
MpaRisk(mpa, curr_row) == IF InMpa(mpa, curr_row) THEN Tenths(8) ELSE 0

\* lines 138-143
FishingRisk(mpa, curr_row) ==
    IF Get(curr_row, "is_fishing", -1) = 1
    THEN IF InMpa(mpa, curr_row) THEN Tenths(10) ELSE Tenths(3)
    ELSE 0

\* a * b \div c, without a product beyond the range of the integers
MulDiv(a, b, c) == (a \div c) * b + ((a % c) * b) \div c

\* lines 146-155: min(avg_speed_kmh / 40, 1) above 20 km/h, for two places
\* on one meridian.  The geodesic lies between the shortest and the longest
\* degree of the ellipsoid; the risks are the thousandths in that range.
DistanceRisks(prev_row, curr_row, gap) ==
    IF gap <= 0 THEN {0}
    ELSE LET d == Abs(curr_row.lat - prev_row.lat)
             \* metres an hour, least and most
             slow == MulDiv(d * MetresPerDegreeMin, 36, gap)
             fast == MulDiv(d * MetresPerDegreeMax, 36, gap) + 1
         IN  (IF slow <= 20000 THEN {0} ELSE {})
                 \cup (IF fast > 20000
                       THEN {k * (RiskUnit \div 1000) :
                                k \in Max(1, Min(slow \div 40, 1000))
                                            ..Min(fast \div 40 + 1, 1000)}
                       ELSE {})

\* line 159: timestamp.hour
Hour(t) == (t \div 3600) % 24

IsNighttime(curr_row) == Hour(curr_row.timestamp) >= 20 \/ Hour(curr_row.timestamp) <= 5

\* lines 158-164
NighttimeRisk(curr_row) ==
    IF IsNighttime(curr_row)
    THEN IF Get(curr_row, "is_fishing", -1) = 1 THEN Tenths(5) ELSE Tenths(2)
    ELSE 0

\* lines 167-170
ShoreRisk(curr_row) ==
    IF Get(curr_row, "distance_from_shore", 0) > 100000 THEN Tenths(3) ELSE 0

\* lines 173-191: the weights are hundredths
WeightedRisk(dark, mpa, fishing, speed, distance, nighttime, shore) ==
    25 * (dark \div 100) + 30 * (mpa \div 100) + 20 * (fishing \div 100)
        + 10 * (speed \div 100) + 8 * (distance \div 100)
        + 4 * (nighttime \div 100) + 3 * (shore \div 100)

\* the weighted sums a segment can have
TotalRisks(mpa, prev_row, curr_row) ==
    LET gap == curr_row.timestamp - prev_row.timestamp
    IN  {WeightedRisk(DarkPeriodRisk(gap), MpaRisk(mpa, curr_row), FishingRisk(mpa, curr_row),
                      SpeedRisk(prev_row, curr_row), distance,
                      NighttimeRisk(curr_row), ShoreRisk(curr_row)) :
            distance \in DistanceRisks(prev_row, curr_row, gap)}

\* round(risk, 3)
RoundedRisks(risk) == RoundSet(risk, RiskUnit \div 1000)

\* _classify_violation
classify_violation(in_mpa, is_fishing, has_dark_period, has_speed_anomaly) ==
    IF in_mpa /\ is_fishing THEN "ILLEGAL_FISHING_IN_MPA"
    ELSE IF in_mpa THEN "MPA_INTRUSION"
    ELSE IF has_dark_period /\ is_fishing THEN "FISHING_WITH_AIS_OFF"
    ELSE IF has_dark_period THEN "SUSPICIOUS_AIS_SILENCE"
    ELSE IF has_speed_anomaly /\ is_fishing THEN "SUSPICIOUS_FISHING_BEHAVIOR"
    ELSE "GENERAL_SUSPICIOUS_ACTIVITY"

\* _calculate_comprehensive_risk: the dicts it can return
calculate_comprehensive_risk(mpa, prev_row, curr_row) ==
    LET gap      == curr_row.timestamp - prev_row.timestamp
        dark     == DarkPeriodRisk(gap)
        speed    == SpeedRisk(prev_row, curr_row)
        in_mpa   == InMpa(mpa, curr_row)
        fishing  == Get(curr_row, "is_fishing", -1) = 1
        \* is_fishing passes for true unless it is 0
        truthy   == Get(curr_row, "is_fishing", -1) /= 0
    IN  UNION {
          {[total_risk_score    |-> total,
            dark_period_hours   |-> IF gap >= DarkPeriodThresholdSeconds THEN gap ELSE 0,
            dark_period_risk    |-> dark_rounded,
            mpa_violation       |-> in_mpa,
            mpa_risk            |-> MpaRisk(mpa, curr_row) \div (RiskUnit \div 1000),
            fishing_detected    |-> fishing,
            fishing_risk        |-> FishingRisk(mpa, curr_row) \div (RiskUnit \div 1000),
            speed_anomaly_risk  |-> speed \div (RiskUnit \div 1000),
            distance_risk       |-> distance_rounded,
            nighttime_operation |-> IsNighttime(curr_row),
            nighttime_risk      |-> NighttimeRisk(curr_row) \div (RiskUnit \div 1000),
            shore_distance_risk |-> ShoreRisk(curr_row) \div (RiskUnit \div 1000),
            current_speed_knots |-> Get(curr_row, "speed", 0),
            violation_type      |-> classify_violation(in_mpa, truthy, dark > 0, speed > 0)] :
              distance_rounded \in RoundedRisks(distance),
              dark_rounded \in RoundedRisks(dark),
              total \in RoundedRisks(
                  WeightedRisk(dark, MpaRisk(mpa, curr_row), FishingRisk(mpa, curr_row), speed,
                               distance, NighttimeRisk(curr_row), ShoreRisk(curr_row)))} :
          distance \in DistanceRisks(prev_row, curr_row, gap)}

AboveThreshold(score) == score > 300

\* line 72: only flag if overall risk is significant
IsSignificant(score) == score >= 300

\* lines 73-83
SuspiciousEvent(mmsi, vessel_data, idx, risk_factors) ==
    Update([mmsi        |-> mmsi,
            start_time  |-> vessel_data[idx - 1].timestamp,
            end_time    |-> vessel_data[idx].timestamp,
            start_lat   |-> vessel_data[idx - 1].lat,
            start_lon   |-> vessel_data[idx - 1].lon,
            end_lat     |-> vessel_data[idx].lat,
            end_lon     |-> vessel_data[idx].lon,
            vessel_type |-> Get(vessel_data[1], "vessel_type", "unknown")],
           risk_factors)

\* sort_values('timestamp') of the rows of one vessel: a stable sort, equal
\* stamps keep the order of the frame
TimestampSortRank(rows, k) ==
    1 + Cardinality({j \in DOMAIN rows :
                        \/ rows[j].timestamp < rows[k].timestamp
                        \/ rows[j].timestamp = rows[k].timestamp /\ j < k})

VesselData(data, mmsi) ==
    LET rows == VesselEvents(data, mmsi)
    IN  [n \in 1..Len(rows) |-> rows[CHOOSE k \in DOMAIN rows : TimestampSortRank(rows, k) = n]]

\* lines 54-84: the events of the segments of one vessel up to the idx-th
RECURSIVE SegmentEvents(_, _, _, _)
SegmentEvents(mpa, mmsi, vessel_data, idx) ==
    IF idx < 2 THEN {<<>>}
    ELSE UNION {
            {IF IsSignificant(risk_factors.total_risk_score)
             THEN Append(head, SuspiciousEvent(mmsi, vessel_data, idx, risk_factors))
             ELSE head :
                risk_factors \in calculate_comprehensive_risk(mpa, vessel_data[idx - 1],
                                                              vessel_data[idx])} :
            head \in SegmentEvents(mpa, mmsi, vessel_data, idx - 1)}

\* lines 44-84: the events of the first n vessels of groupby('mmsi')
RECURSIVE DetectedEvents(_, _, _, _)
DetectedEvents(mpa, data, groups, n) ==
    IF n = 0 THEN {<<>>}
    ELSE LET vessel_data == VesselData(data, groups[n])
         IN  {head \o tail :
                 head \in DetectedEvents(mpa, data, groups, n - 1),
                 tail \in SegmentEvents(mpa, groups[n], vessel_data, Len(vessel_data))}

\* detect_illegal_activity: the rows of the frames it can return
detect_illegal_activity(mpa, data) ==
    LET groups == Ascending({data[k].mmsi : k \in DOMAIN data})
    IN  DetectedEvents(mpa, data, groups, Len(groups))

IsAtLeastSignificant(score) == score >= 300

\* line 258: total_risk_score > 0.7
IsHighRisk(score) == score > 700

\* the violation types in the order of their names
ViolationTypes ==
    <<"FISHING_WITH_AIS_OFF", "GENERAL_SUSPICIOUS_ACTIVITY", "ILLEGAL_FISHING_IN_MPA",
      "MPA_INTRUSION", "SUSPICIOUS_AIS_SILENCE", "SUSPICIOUS_FISHING_BEHAVIOR">>

\* events['violation_type'].mode()[0]: the most frequent type, the first by
\* name among equals
PrimaryViolationType(events) ==
    LET count(n) == Cardinality({k \in DOMAIN events :
                                    events[k].violation_type = ViolationTypes[n]})
        first == CHOOSE n \in DOMAIN ViolationTypes :
                    \A j \in DOMAIN ViolationTypes :
                        count(n) > count(j) \/ (count(n) = count(j) /\ n <= j)
    IN  ViolationTypes[first]

\* lines 253-268: the profile of one vessel
VesselProfile(mmsi, events) ==
    LET scores == [k \in DOMAIN events |-> events[k].total_risk_score]
    IN  [mmsi                    |-> mmsi,
         vessel_type             |-> events[1].vessel_type,
         total_suspicious_events |-> Len(events),
         avg_risk_score          |-> [sum |-> Sum(scores), count |-> Len(events)],
         max_risk_score          |-> CHOOSE score \in Range(scores) :
                                        \A other \in Range(scores) : score >= other,
         high_risk_events        |-> Cardinality({k \in DOMAIN events :
                                        IsHighRisk(events[k].total_risk_score)}),
         mpa_violations          |-> Cardinality({k \in DOMAIN events :
                                        events[k].mpa_violation}),
         fishing_while_dark      |-> Cardinality({k \in DOMAIN events :
                                        /\ events[k].dark_period_hours > 0
                                        /\ events[k].fishing_detected}),
         total_dark_hours        |-> Sum([k \in DOMAIN events |->
                                              events[k].dark_period_hours]),
         nighttime_operations    |-> Cardinality({k \in DOMAIN events :
                                        events[k].nighttime_operation}),
         last_violation_time     |-> CHOOSE t \in {events[k].end_time : k \in DOMAIN events} :
                                        \A k \in DOMAIN events : t >= events[k].end_time,
         last_lat                |-> events[Len(events)].end_lat,
         last_lon                |-> events[Len(events)].end_lon,
         primary_violation_type  |-> PrimaryViolationType(events)]

\* sort_values('avg_risk_score', ascending=False): equal averages come out
\* in any order
SortedByAvgRisk(profiles) ==
    {[n \in DOMAIN order |-> profiles[order[n]]] :
        order \in {o \in IterationOrders(DOMAIN profiles) :
                      \A j, k \in DOMAIN o :
                          j < k => profiles[o[j]].avg_risk_score.sum
                                       * profiles[o[k]].avg_risk_score.count
                                   >= profiles[o[k]].avg_risk_score.sum
                                       * profiles[o[j]].avg_risk_score.count}}

\* calculate_vessel_risk_profile: the rows of the frames it can return
calculate_vessel_risk_profile(events) ==
    IF events = <<>> THEN {<<>>}
    ELSE LET groups == Ascending({events[k].mmsi : k \in DOMAIN events})
         IN  SortedByAvgRisk([n \in DOMAIN groups |->
                                 VesselProfile(groups[n], VesselEvents(events, groups[n]))])

\* inputs of the detector
MaxDetectorRows == 3               \* rows of the fishing_data frame

FishingRow(m, t, la, sp, fishing, shore) ==
    [mmsi |-> m, timestamp |-> t, lat |-> la, lon |-> NetLon, speed |-> sp,
     is_fishing |-> fishing, distance_from_shore |-> shore]

\* fixes of vessel 1 at 08:00 and 23 h 1 min 48 s later, fishing or not, and
\* of vessel 2, fishing; for vessel 1 also a fix at 08:00 the next day at
\* 16 knots, one like it whose is_fishing is unknown (-1), one at 09:00 a
\* degree away, one 36 hours after the first at 20:00, fourteen degrees
\* away and far from the shore, fishing at 1 knot, and one like it an hour
\* later a degree further
FishingRows ==
    {FishingRow(1, t, 1000, 5, fishing, 0) : t \in {28800, 111708}, fishing \in {0, 1}}
        \cup {FishingRow(2, t, 1000, 5, 1, 0) : t \in {28800, 111708}}
        \cup {FishingRow(1, 115200, 1000, 16, 0, 0),
              FishingRow(1, 115200, 1000, 16, -1, 0),
              FishingRow(1, 32400, 1100, 5, 0, 0),
              FishingRow(1, 158400, 2400, 1, 1, 150000),
              FishingRow(1, 162000, 2500, 1, 1, 150000)}

\* the frames a detector is constructed with: none, an empty one, and one
\* area from 9 to 10.5 degrees north
MpaFrames ==
    {NoMpaData, MpaFrame(<<>>),
     MpaFrame(<<[WDPAID |-> 1, geometry |-> [lat_min |-> 900, lat_max |-> 1050]]>>)}

DetectorIdle ==
    /\ mpa_data = NoMpaData
    /\ fishing_data = <<>>
    /\ suspicious_segments = <<>>
    /\ vessel_profiles = <<>>
    /\ detector_pc = "idle"

(***************************************************************************)
(* services/dark_period_detector.py: DarkPeriodDetector                    *)
(*                                                                         *)
(* Times are seconds, positions hundredths of a degree on one meridian,    *)
(* distances metres, durations seconds.  A score is a whole number of      *)
(* RiskUnit-ths, a rounded score thousandths.                              *)
(***************************************************************************)
ThresholdSeconds == 10800              \* settings.DARK_PERIOD_THRESHOLD_HOURS = 3.0

\* line 55
ReachesThreshold(gap) == gap >= ThresholdSeconds

\* line 62: the geodesic between two places on one meridian lies between
\* the shortest and the longest degree of the ellipsoid
GeodesicMetres(start_row, end_row) ==
    LET d == Abs(end_row.lat - start_row.lat)
    IN  IF d = 0 THEN {0}
        ELSE (d * MetresPerDegreeMin) \div 100 .. (d * MetresPerDegreeMax) \div 100 + 1

\* lines 65-66
StartsAtNight(start_row) == Hour(start_row.timestamp) >= 18 \/ Hour(start_row.timestamp) <= 6

\* line 113: min(gap_hours / 24, 1)
GapScore(gap) == Min(gap, 86400) * (RiskUnit \div 86400)

\* lines 117-119: min(avg_speed_kmh / 20, 1), to a thousandth
DistanceScores(metres, gap) ==
    IF gap <= 0 \/ metres = 0 THEN {0}
    ELSE LET speed == (metres * 3600) \div gap     \* metres an hour
         IN  {Min(k, 1000) * (RiskUnit \div 1000) :
                 k \in speed \div 20 .. speed \div 20 + 1}

\* lines 121-134: the weights of core/config.py are hundredths
calculate_risk_score(gap, metres, in_mpa, is_nighttime) ==
    UNION {RoundedRisks(30 * (GapScore(gap) \div 100)
                        + 25 * (distance_score \div 100)
                        + 25 * ((IF in_mpa THEN RiskUnit ELSE 0) \div 100)
                        + 20 * ((IF is_nighttime THEN RiskUnit ELSE 0) \div 100)) :
             distance_score \in DistanceScores(metres, gap)}

\* lines 56-90: the dicts appended for the gap that ends at the idx-th row
DarkPeriods(mmsi, vessel_data, idx) ==
    LET start_row == vessel_data[idx - 1]
        end_row   == vessel_data[idx]
        gap       == end_row.timestamp - start_row.timestamp
    IN  UNION {
          {[mmsi           |-> mmsi,
            start_time     |-> start_row.timestamp,
            end_time       |-> end_row.timestamp,
            duration_hours |-> gap,
            start_lat      |-> start_row.lat,
            start_lon      |-> start_row.lon,
            end_lat        |-> end_row.lat,
            end_lon        |-> end_row.lon,
            distance_km    |-> metres,
            risk_score     |-> risk_score,
            in_mpa         |-> FALSE,
            is_nighttime   |-> StartsAtNight(start_row)] :
              risk_score \in calculate_risk_score(gap, metres, FALSE,
                                                  StartsAtNight(start_row))} :
          metres \in GeodesicMetres(start_row, end_row)}

\* lines 47-91: the dark periods of one vessel up to its idx-th row
RECURSIVE VesselDarkPeriods(_, _, _)
VesselDarkPeriods(mmsi, vessel_data, idx) ==
    IF idx < 2 THEN {<<>>}
    ELSE LET gap == vessel_data[idx].timestamp - vessel_data[idx - 1].timestamp
         IN  IF ReachesThreshold(gap)
             THEN {Append(head, dark_period) :
                      head \in VesselDarkPeriods(mmsi, vessel_data, idx - 1),
                      dark_period \in DarkPeriods(mmsi, vessel_data, idx)}
             ELSE VesselDarkPeriods(mmsi, vessel_data, idx - 1)

\* lines 37-91: the dark periods of the first n vessels of groupby('mmsi')
RECURSIVE GroupedDarkPeriods(_, _, _)
GroupedDarkPeriods(frame, groups, n) ==
    IF n = 0 THEN {<<>>}
    ELSE LET vessel_data == VesselData(frame, groups[n])
         IN  {head \o tail :
                 head \in GroupedDarkPeriods(frame, groups, n - 1),
                 tail \in VesselDarkPeriods(groups[n], vessel_data, Len(vessel_data))}

\* detect_dark_periods: the rows of the frames it can return
detect_dark_periods(frame) ==
    LET groups == Ascending({frame[k].mmsi : k \in DOMAIN frame})
    IN  GroupedDarkPeriods(frame, groups, Len(groups))

\* inputs of the dark period detector
MaxPeriodRows == 3                 \* rows of the ais_df frame

\* fixes at 00:00, a second short of three hours later, three hours later,
\* a second more than that and at 21:00; for vessel 1 also a fix at 06:00
\* a hundredth of a degree away
PeriodRows ==
    {[mmsi |-> m, timestamp |-> t, lat |-> 1000, lon |-> NetLon] :
        m \in MMSIs, t \in {0, 10799, 10800, 10801, 75600}}
        \cup {[mmsi |-> 1, timestamp |-> 21600, lat |-> 1001, lon |-> NetLon]}

PeriodIdle ==
    /\ ais_df = <<>>
    /\ dark_periods = <<>>
    /\ period_pc = "idle"

(***************************************************************************)
(* The gap detector as a state machine: a frame and a threshold arrive,    *)
(* the two detectors run on them in either order.                          *)
(***************************************************************************)
DarkIdle ==
    /\ df = <<>>
    /\ threshold_minutes = 0
    /\ dark_events_summary = <<>>
    /\ enhanced_events = <<>>
    /\ detected = {}

RegionIdle ==
    /\ lat = 0
    /\ lon = 0
    /\ region = "unclassified"

InitDark ==
    /\ df \in SeqsUpTo(DarkFixes, MaxRows)
    /\ threshold_minutes \in Thresholds
    /\ dark_events_summary = <<>>
    /\ enhanced_events = <<>>
    /\ detected = {}

DetectDarkEvents ==
    /\ "detect_dark_events" \notin detected
    /\ dark_events_summary' = detect_dark_events(df, threshold_minutes)
    /\ detected' = detected \cup {"detect_dark_events"}
    /\ UNCHANGED <<df, threshold_minutes, enhanced_events, notDarkVars>>

DetectEnhancedDarkEvents ==
    /\ "detect_enhanced_dark_events" \notin detected
    /\ enhanced_events' \in detect_enhanced_dark_events(df, threshold_minutes)
    /\ detected' = detected \cup {"detect_enhanced_dark_events"}
    /\ UNCHANGED <<df, threshold_minutes, dark_events_summary, notDarkVars>>

NextDark ==
    \/ DetectDarkEvents
    \/ DetectEnhancedDarkEvents

InitSpecDark ==
    InitDark /\ RegionIdle /\ ProxIdle /\ ScoreIdle /\ ContextIdle
        /\ ClusterIdle /\ HexbinIdle /\ NetIdle /\ VesselIdle /\ DetectorIdle /\ PeriodIdle

SpecDark == InitSpecDark /\ [][NextDark]_vars

(***************************************************************************)
(* The region rule as a state machine: a coordinate pair arrives and is    *)
(* classified.                                                             *)
(***************************************************************************)
LatSamples ==
    {Deg(-91), Deg(-90), Deg(-60), Deg(-30) - 1, Deg(-30), Deg(-30) + 1, 0,
     Deg(30) - 1, Deg(30), Deg(30) + 1, Deg(60), Deg(65), Deg(70),
     Deg(70) + 1, Deg(90), Deg(91)}

LonSamples ==
    {Deg(-181), Deg(-180), Deg(-80) - 1, Deg(-80), Deg(-80) + 1, 0,
     Deg(20) - 1, Deg(20), Deg(20) + 1, Deg(180), Deg(181)}

InitRegion ==
    /\ lat \in LatSamples
    /\ lon \in LonSamples
    /\ region = "unclassified"

ClassifyRegion ==
    /\ region = "unclassified"
    /\ region' = classify_region(lat, lon)
    /\ UNCHANGED <<lat, lon, notRegionVars>>

\* the next coordinate pair arrives
NextCoordinates ==
    /\ region /= "unclassified"
    /\ lat' \in LatSamples
    /\ lon' \in LonSamples
    /\ region' = "unclassified"
    /\ UNCHANGED notRegionVars

NextRegion ==
    \/ ClassifyRegion
    \/ NextCoordinates

InitSpecRegion ==
    InitRegion /\ DarkIdle /\ ProxIdle /\ ScoreIdle /\ ContextIdle
        /\ ClusterIdle /\ HexbinIdle /\ NetIdle /\ VesselIdle /\ DetectorIdle /\ PeriodIdle

SpecRegion == InitSpecRegion /\ [][NextRegion]_vars

(***************************************************************************)
(* The proximity index as a state machine: build_proximity_index is called *)
(* on a frame, walks its time bins, writes checkpoints and the final file; *)
(* the process can be killed between any two of its steps, and the call    *)
(* can be made again on the same frame with the files the earlier call     *)
(* left behind.  Timestamps are pandas Timestamps (pandas 2 and later).    *)
(***************************************************************************)
SaveEveryChoices == {1, 2}

InitProx ==
    /\ prox_df \in SeqsUpTo(ProxFixes, MaxFixes)
    /\ save_every \in SaveEveryChoices
    /\ output_file = AbsentFile
    /\ partial_file = AbsentFile
    /\ pc = "idle"
    /\ bin_i = 0
    /\ proximity_events = <<>>
    /\ processed_bins = {}
    /\ runs = 0
    /\ hist = HistInit

\* lines 59-80: the call begins
BuildStart ==
    /\ pc \in {"idle", "killed", "done"}
    /\ runs < MaxRuns
    /\ \E resume \in BOOLEAN :
        LET existing_events == LoadExisting(resume, output_file)
            follows == resume /\ pc = "killed" /\ hist.checkpointed
        IN  /\ proximity_events' = existing_events
            /\ processed_bins' = LoadedBins(existing_events)
            /\ hist' = [HistInit EXCEPT
                          !.resumed = follows,
                          !.prior_events = IF follows THEN hist.ckpt_events ELSE <<>>,
                          !.prior_bins = IF follows THEN hist.ckpt_bins ELSE {},
                          !.rerun = resume /\ pc = "done",
                          !.prior_result = IF resume /\ pc = "done"
                                           THEN proximity_events ELSE <<>>,
                          !.loaded = existing_events]
    /\ bin_i' = 0
    /\ pc' = "loop"
    /\ runs' = runs + 1
    /\ UNCHANGED <<prox_df, save_every, output_file, partial_file, notProxVars>>

\* `continue` at lines 87, 95 and 114: on to the next bin, nothing else
ContinueLoop(ran_body) ==
    /\ bin_i' = bin_i + 1
    /\ hist' = [hist EXCEPT
                  !.since_ckpt = @ + 1,
                  !.revisited = IF ran_body
                                THEN @ \cup {time_bins(prox_df)[bin_i + 1]}
                                ELSE @]
    /\ UNCHANGED <<pc, proximity_events, processed_bins, partial_file>>

\* lines 85-149: one pass of the main loop, up to the opening of tmp_path
\* when a checkpoint is due
ProcessBin ==
    /\ pc = "loop"
    /\ bin_i < Len(time_bins(prox_df))
    /\ LET time_bin == time_bins(prox_df)[bin_i + 1]
           bin_data == SelectBin(sort_by_time(prox_df), time_bin)
       IN  IF str(time_bin) \in processed_bins
           THEN ContinueLoop(FALSE)
           ELSE IF Len(bin_data) < 2
           THEN ContinueLoop(TRUE)
           ELSE \E rows \in SampleBin(bin_data) :
                  IF PairList(rows) = <<>>
                  THEN ContinueLoop(TRUE)
                  ELSE \E records \in EncounterLists(time_bin, rows, PairList(rows)) :
                         /\ proximity_events' = proximity_events \o records
                         /\ processed_bins' = processed_bins \cup {str(time_bin)}
                         /\ hist' = [hist EXCEPT
                                       !.since_ckpt = @ + 1,
                                       !.revisited = @ \cup {time_bin}]
                         /\ IF CheckpointDue(prox_df, bin_i, save_every)
                            THEN /\ partial_file' = TruncatedFile
                                 /\ pc' = "checkpoint"
                                 /\ bin_i' = bin_i
                            ELSE /\ bin_i' = bin_i + 1
                                 /\ UNCHANGED <<pc, partial_file>>
    /\ UNCHANGED <<prox_df, save_every, output_file, runs, notProxVars>>

\* line 145: json.dump(proximity_events, f) runs to its end and the file closes
WriteCheckpoint ==
    /\ pc = "checkpoint"
    /\ partial_file' = CompleteFile(proximity_events)
    /\ hist' = [hist EXCEPT
                  !.checkpointed = TRUE,
                  !.ckpt_events = proximity_events,
                  !.ckpt_bins = {time_bins(prox_df)[k] : k \in 1..(bin_i + 1)},
                  !.since_ckpt = 0]
    /\ bin_i' = bin_i + 1
    /\ pc' = "loop"
    /\ UNCHANGED <<prox_df, save_every, output_file, proximity_events,
                   processed_bins, runs, notProxVars>>

\* line 154: the loop is over, output_path is opened with "w"
OpenOutput ==
    /\ pc = "loop"
    /\ bin_i = Len(time_bins(prox_df))
    /\ output_file' = TruncatedFile
    /\ pc' = "final"
    /\ UNCHANGED <<prox_df, save_every, partial_file, bin_i, proximity_events,
                   processed_bins, runs, hist, notProxVars>>

\* lines 155-159: the final dump runs to its end, the call returns
WriteOutput ==
    /\ pc = "final"
    /\ output_file' = CompleteFile(proximity_events)
    /\ pc' = "done"
    /\ UNCHANGED <<prox_df, save_every, partial_file, bin_i, proximity_events,
                   processed_bins, runs, hist, notProxVars>>

\* the process is killed: its memory is gone, the files stay as they are
Kill ==
    /\ pc \in {"loop", "checkpoint", "final"}
    /\ pc' = "killed"
    /\ bin_i' = 0
    /\ proximity_events' = <<>>
    /\ processed_bins' = {}
    /\ UNCHANGED <<prox_df, save_every, output_file, partial_file, runs, hist,
                   notProxVars>>

NextProx ==
    \/ BuildStart
    \/ ProcessBin
    \/ WriteCheckpoint
    \/ OpenOutput
    \/ WriteOutput
    \/ Kill

InitSpecProx ==
    InitProx /\ DarkIdle /\ RegionIdle /\ ScoreIdle /\ ContextIdle
        /\ ClusterIdle /\ HexbinIdle /\ NetIdle /\ VesselIdle /\ DetectorIdle /\ PeriodIdle

SpecProx == InitSpecProx /\ [][NextProx]_vars

(***************************************************************************)
(* Scoring as a state machine: a list of events arrives, score_all_events  *)
(* runs on it.                                                             *)
(***************************************************************************)
InitScore ==
    /\ dark_events \in SeqsUpTo(ContextEvents, MaxEvents)
    /\ scored = FALSE

ScoreAllEvents ==
    /\ ~scored
    /\ dark_events' \in score_all_events(dark_events)
    /\ scored' = TRUE
    /\ UNCHANGED notScoreVars

NextScore == ScoreAllEvents

InitSpecScore ==
    InitScore /\ DarkIdle /\ RegionIdle /\ ProxIdle /\ ContextIdle
        /\ ClusterIdle /\ HexbinIdle /\ NetIdle /\ VesselIdle /\ DetectorIdle /\ PeriodIdle

SpecScore == InitSpecScore /\ [][NextScore]_vars

(***************************************************************************)
(* The context check as a state machine: events, a proximity index and the *)
(* fixes arrive, check_dark_event_context runs on them.                    *)
(***************************************************************************)
InitContext ==
    /\ context_events \in SeqsUpTo(ContextInputEvents, MaxEvents)
    /\ context_index \in ContextIndexes
    /\ df_ais \in AisFrames
    /\ context_pc = "ready"

CheckDarkEventContext ==
    /\ context_pc = "ready"
    /\ \E outcome \in check_dark_event_context(context_events, context_index, df_ais) :
          /\ context_events' = outcome.events
          /\ context_pc' = IF outcome.raised THEN "raised" ELSE "done"
    /\ UNCHANGED <<context_index, df_ais, notContextVars>>

NextContext == CheckDarkEventContext

InitSpecContext ==
    InitContext /\ DarkIdle /\ RegionIdle /\ ProxIdle /\ ScoreIdle
        /\ ClusterIdle /\ HexbinIdle /\ NetIdle /\ VesselIdle /\ DetectorIdle /\ PeriodIdle

SpecContext == InitSpecContext /\ [][NextContext]_vars

(***************************************************************************)
(* The clustering as a state machine: a scored list arrives,               *)
(* cluster_dark_zones runs on it.                                          *)
(***************************************************************************)
InitCluster ==
    /\ cluster_events \in ScoredLists(1, MaxClusterEvents)
    /\ cluster_summary = <<>>
    /\ cluster_pc = "ready"

ClusterDarkZones ==
    /\ cluster_pc = "ready"
    /\ \E result \in cluster_dark_zones(cluster_events) :
          /\ cluster_events' = result.events
          /\ cluster_summary' = result.summary
    /\ cluster_pc' = "done"
    /\ UNCHANGED notClusterVars

NextCluster == ClusterDarkZones

InitSpecCluster ==
    InitCluster /\ DarkIdle /\ RegionIdle /\ ProxIdle /\ ScoreIdle
        /\ ContextIdle /\ HexbinIdle /\ NetIdle /\ VesselIdle /\ DetectorIdle /\ PeriodIdle

SpecCluster == InitSpecCluster /\ [][NextCluster]_vars

(***************************************************************************)
(* The grid aggregation as a state machine: a list of events arrives,      *)
(* generate_hexbin_aggregation runs on it.                                 *)
(***************************************************************************)
InitHexbin ==
    /\ hexbin_events \in SeqsUpTo(HexbinEvents, MaxHexEvents)
    /\ hexbin_data = <<>>
    /\ hexbin_pc = "ready"

GenerateHexbinAggregation ==
    /\ hexbin_pc = "ready"
    /\ \E result \in generate_hexbin_aggregation(hexbin_events) :
          /\ hexbin_data' = result.value
          /\ hexbin_pc' = IF result.raised THEN "raised" ELSE "done"
    /\ UNCHANGED <<hexbin_events, notHexbinVars>>

NextHexbin == GenerateHexbinAggregation

InitSpecHexbin ==
    InitHexbin /\ DarkIdle /\ RegionIdle /\ ProxIdle /\ ScoreIdle
        /\ ContextIdle /\ ClusterIdle /\ NetIdle /\ VesselIdle /\ DetectorIdle /\ PeriodIdle

SpecHexbin == InitSpecHexbin /\ [][NextHexbin]_vars

(***************************************************************************)
(* The network analyzer as a state machine: the two frames arrive,         *)
(* build_network makes the graph, identify_coordinators reads it.          *)
(***************************************************************************)
InitNet ==
    /\ \/ /\ suspicious_events \in SeqsUpTo(NetEvents, MaxNetEvents)
          /\ all_ais_data \in SeqsUpTo(NetFixes, MaxNetFixes)
       \/ /\ suspicious_events = CliqueEvents
          /\ all_ais_data = CliqueFixes
    /\ network = None
    /\ coordinators = <<>>
    /\ net_pc = "ready"

BuildNetwork ==
    /\ net_pc = "ready"
    /\ network' \in build_network(suspicious_events, all_ais_data)
    /\ net_pc' = "built"
    /\ UNCHANGED <<suspicious_events, all_ais_data, coordinators, notNetVars>>

\* identify_coordinators raises ValueError before build_network has run
IdentifyCoordinators ==
    /\ net_pc \in {"ready", "built"}
    /\ IF network = None
       THEN /\ net_pc' = "raised"
            /\ UNCHANGED coordinators
       ELSE /\ coordinators' \in identify_coordinators(network)
            /\ net_pc' = "identified"
    /\ UNCHANGED <<suspicious_events, all_ais_data, network, notNetVars>>

NextNet == BuildNetwork \/ IdentifyCoordinators

InitSpecNet ==
    InitNet /\ DarkIdle /\ RegionIdle /\ ProxIdle /\ ScoreIdle
        /\ ContextIdle /\ ClusterIdle /\ HexbinIdle /\ VesselIdle /\ DetectorIdle /\ PeriodIdle

SpecNet == InitSpecNet /\ [][NextNet]_vars

(***************************************************************************)
(* main() of network_analysis.py as a state machine: the dark events are   *)
(* loaded, build_vessel_network makes the graph, and                       *)
(* analyze_network_centrality reads it.                                    *)
(***************************************************************************)
InitVessel ==
    /\ contextualized_events \in SeqsUpTo(ContextualizedEvents, MaxVesselEvents)
    /\ vessel_network = None
    /\ centrality_scores = <<>>
    /\ vessel_pc = "ready"

BuildVesselNetwork ==
    /\ vessel_pc = "ready"
    /\ LET result == build_vessel_network(contextualized_events)
       IN  /\ vessel_network' = result.value
           /\ vessel_pc' = IF result.raised THEN "raised" ELSE "built"
    /\ UNCHANGED <<contextualized_events, centrality_scores, notVesselVars>>

AnalyzeNetworkCentrality ==
    /\ vessel_pc = "built"
    /\ \E result \in analyze_network_centrality(vessel_network) :
          /\ centrality_scores' = result.value
          /\ vessel_pc' = IF result.raised THEN "raised" ELSE "analyzed"
    /\ UNCHANGED <<contextualized_events, vessel_network, notVesselVars>>

NextVessel == BuildVesselNetwork \/ AnalyzeNetworkCentrality

InitSpecVessel ==
    InitVessel /\ DarkIdle /\ RegionIdle /\ ProxIdle /\ ScoreIdle
        /\ ContextIdle /\ ClusterIdle /\ HexbinIdle /\ NetIdle /\ DetectorIdle /\ PeriodIdle

SpecVessel == InitSpecVessel /\ [][NextVessel]_vars

(***************************************************************************)
(* The comprehensive detector as a state machine: a frame of fixes         *)
(* arrives, detect_illegal_activity runs on it.                            *)
(***************************************************************************)
InitDetector ==
    /\ mpa_data \in MpaFrames
    /\ fishing_data \in SeqsUpTo(FishingRows, MaxDetectorRows)
    /\ suspicious_segments = <<>>
    /\ vessel_profiles = <<>>
    /\ detector_pc = "ready"

DetectIllegalActivity ==
    /\ detector_pc = "ready"
    /\ suspicious_segments' \in detect_illegal_activity(mpa_data, fishing_data)
    /\ detector_pc' = "done"
    /\ UNCHANGED <<mpa_data, fishing_data, vessel_profiles, notDetectorVars>>

CalculateVesselRiskProfile ==
    /\ detector_pc = "done"
    /\ vessel_profiles' \in calculate_vessel_risk_profile(suspicious_segments)
    /\ detector_pc' = "profiled"
    /\ UNCHANGED <<mpa_data, fishing_data, suspicious_segments, notDetectorVars>>

NextDetector == DetectIllegalActivity \/ CalculateVesselRiskProfile

InitSpecDetector ==
    InitDetector /\ DarkIdle /\ RegionIdle /\ ProxIdle /\ ScoreIdle /\ ContextIdle
        /\ ClusterIdle /\ HexbinIdle /\ NetIdle /\ VesselIdle /\ PeriodIdle

SpecDetector == InitSpecDetector /\ [][NextDetector]_vars

(***************************************************************************)
(* The dark period detector as a state machine: a frame of fixes arrives,  *)
(* detect_dark_periods runs on it.                                         *)
(***************************************************************************)
InitPeriod ==
    /\ ais_df \in SeqsUpTo(PeriodRows, MaxPeriodRows)
    /\ dark_periods = <<>>
    /\ period_pc = "ready"

DetectDarkPeriods ==
    /\ period_pc = "ready"
    /\ dark_periods' \in detect_dark_periods(ais_df)
    /\ period_pc' = "done"
    /\ UNCHANGED <<ais_df, notPeriodVars>>

NextPeriod == DetectDarkPeriods

InitSpecPeriod ==
    InitPeriod /\ DarkIdle /\ RegionIdle /\ ProxIdle /\ ScoreIdle /\ ContextIdle
        /\ ClusterIdle /\ HexbinIdle /\ NetIdle /\ VesselIdle /\ DetectorIdle

SpecPeriod == InitSpecPeriod /\ [][NextPeriod]_vars

(***************************************************************************)
(* Claims about the gap detector                                           *)
(***************************************************************************)
\* Row i of the input comes before row j in their vessel's timestamp order
\* (rows with equal timestamps keep their input order).
SameVessel(i, j) == df[i].MMSI = df[j].MMSI

Precedes(i, j) ==
    \/ df[i].BaseDateTime < df[j].BaseDateTime
    \/ df[i].BaseDateTime = df[j].BaseDateTime /\ i < j

Consecutive(i, j) ==
    /\ SameVessel(i, j)
    /\ Precedes(i, j)
    /\ ~ \E k \in DOMAIN df : SameVessel(i, k) /\ Precedes(i, k) /\ Precedes(k, j)

Gap(i, j) == df[j].BaseDateTime - df[i].BaseDateTime

\* the pairs of input rows the claim says give an event
GapPairs ==
    {p \in (DOMAIN df) \X (DOMAIN df) :
        Consecutive(p[1], p[2]) /\ Gap(p[1], p[2]) > threshold_minutes * 60}

EventIsOfPair(e, p) ==
    /\ e.mmsi = df[p[1]].MMSI
    /\ e.mmsi = df[p[2]].MMSI
    /\ e.start = df[p[1]].BaseDateTime
    /\ e.start_location = <<df[p[1]].LAT, df[p[1]].LON>>
    /\ e.end = df[p[2]].BaseDateTime
    /\ e.end_location = <<df[p[2]].LAT, df[p[2]].LON>>

SummaryIsOfPair(r, p) ==
    /\ r.MMSI = df[p[1]].MMSI
    /\ r.MMSI = df[p[2]].MMSI
    /\ r.GapStartTime = df[p[2]].BaseDateTime
    /\ r.GapDuration = Gap(p[1], p[2])

RowsOfVessel(m) == {i \in DOMAIN df : df[i].MMSI = m}

EventsOfVessel(m) == {n \in DOMAIN enhanced_events : enhanced_events[n].mmsi = m}

\* C1: in both detectors, for input rows in any order, an event is emitted
\* for a pair of fixes exactly when the two are fixes of one vessel,
\* consecutive in its timestamp order, with a gap strictly above the
\* threshold; so a gap equal to the threshold, a single fix and fixes of two
\* vessels give no event, and n fixes of a vessel give at most n-1 events.
C1_EventIffConsecutiveGapAboveThreshold ==
    /\ "detect_enhanced_dark_events" \in detected =>
          /\ Len(enhanced_events) = Cardinality(GapPairs)
          /\ \A p \in GapPairs :
                \E n \in DOMAIN enhanced_events : EventIsOfPair(enhanced_events[n], p)
          /\ \A n \in DOMAIN enhanced_events :
                \E p \in GapPairs : EventIsOfPair(enhanced_events[n], p)
          /\ \A n \in DOMAIN enhanced_events :
                enhanced_events[n].end - enhanced_events[n].start
                    /= threshold_minutes * 60
          /\ \A m \in MMSIs :
                /\ Cardinality(RowsOfVessel(m)) <= 1 => EventsOfVessel(m) = {}
                /\ Cardinality(RowsOfVessel(m)) >= 1 =>
                      Cardinality(EventsOfVessel(m)) <= Cardinality(RowsOfVessel(m)) - 1
    /\ "detect_dark_events" \in detected =>
          /\ Len(dark_events_summary) = Cardinality(GapPairs)
          /\ \A p \in GapPairs :
                \E n \in DOMAIN dark_events_summary :
                    SummaryIsOfPair(dark_events_summary[n], p)
          /\ \A n \in DOMAIN dark_events_summary :
                \E p \in GapPairs : SummaryIsOfPair(dark_events_summary[n], p)

\* C1 witness: both detectors have run on rows that arrived out of timestamp
\* order, holding a gap equal to the threshold (no event) and a longer one
\* (an event).
C1_Witness ==
    /\ detected = {"detect_dark_events", "detect_enhanced_dark_events"}
    /\ \E i, j \in DOMAIN df :
          i < j /\ SameVessel(i, j) /\ df[j].BaseDateTime < df[i].BaseDateTime
    /\ \E i, j \in DOMAIN df :
          Consecutive(i, j) /\ Gap(i, j) = threshold_minutes * 60
    /\ Len(enhanced_events) = 1
    /\ Len(dark_events_summary) = 1

\* C2 as stated: every event has end > start and a stored duration_hours
\* strictly above threshold_minutes/60.
C2_StoredDurationAboveThreshold ==
    \A n \in DOMAIN enhanced_events :
        /\ enhanced_events[n].end > enhanced_events[n].start
        /\ enhanced_events[n].duration_hours * 60 > threshold_minutes * 100

\* C2 amended: every event has end > start, its gap end - start is strictly
\* above the threshold, and its stored duration_hours, being that gap
\* rounded to two decimals, is above threshold_minutes/60 - 0.005.
C2_StoredDurationWithinRoundingOfThreshold ==
    \A n \in DOMAIN enhanced_events :
        /\ enhanced_events[n].end > enhanced_events[n].start
        /\ enhanced_events[n].end - enhanced_events[n].start > threshold_minutes * 60
        /\ 6 * enhanced_events[n].duration_hours > 10 * threshold_minutes - 3

\* C2 witness: an event whose stored duration_hours equals the threshold in
\* hours (a gap of 3601 s under a threshold of 60 min stores 1.0).
C2_Witness ==
    \E n \in DOMAIN enhanced_events :
        /\ enhanced_events[n].end - enhanced_events[n].start > threshold_minutes * 60
        /\ enhanced_events[n].duration_hours * 60 = threshold_minutes * 100

\* the scenario of C8: mmsi 1 at (t=0, 10.0, 20.0) and (t=3600, 10.1, 20.1)
ScenarioFrame ==
    <<[MMSI |-> 1, BaseDateTime |-> 0,    LAT |-> 1000, LON |-> 2000],
      [MMSI |-> 1, BaseDateTime |-> 3600, LAT |-> 1010, LON |-> 2010]>>

ScenarioRan ==
    /\ df = ScenarioFrame
    /\ threshold_minutes = 10
    /\ "detect_enhanced_dark_events" \in detected

ScenarioEvent(region_tag) ==
    [mmsi           |-> 1,
     start          |-> 0,
     end            |-> 3600,
     region         |-> region_tag,
     location       |-> <<2 * 1005, 2 * 2005>>,
     start_location |-> <<1000, 2000>>,
     end_location   |-> <<1010, 2010>>,
     duration_hours |-> 100]

\* the fields C8 names, apart from duration_hours
EventFieldsFromBracketingFixes(e) ==
    \E p \in GapPairs :
        /\ EventIsOfPair(e, p)
        /\ e.location = <<df[p[1]].LAT + df[p[2]].LAT, df[p[1]].LON + df[p[2]].LON>>
        /\ e.region = classify_region(e.location[1], e.location[2])

\* C8 as stated: start and start_location come from the earlier bracketing
\* fix, end and end_location from the later one, location is the mean of the
\* two, duration_hours = (end - start)/3600, and the scenario gives one
\* event of 1 h at (10.05, 20.05) in region Atlantic.
C8_FieldsExactDurationScenarioAtlantic ==
    /\ \A n \in DOMAIN enhanced_events :
          /\ EventFieldsFromBracketingFixes(enhanced_events[n])
          /\ enhanced_events[n].duration_hours * 36
                = enhanced_events[n].end - enhanced_events[n].start
    /\ ScenarioRan => enhanced_events = <<ScenarioEvent("Atlantic")>>

\* C8 amended: as stated, but duration_hours is (end - start)/3600 rounded
\* to two decimals, and the scenario's event has region Indo-Pacific
\* (its midpoint longitude 20.05 is above 20).
C8_FieldsRoundedDurationScenarioIndoPacific ==
    /\ \A n \in DOMAIN enhanced_events :
          /\ EventFieldsFromBracketingFixes(enhanced_events[n])
          /\ Abs(enhanced_events[n].duration_hours * 36
                   - (enhanced_events[n].end - enhanced_events[n].start)) <= 18
    /\ ScenarioRan => enhanced_events = <<ScenarioEvent("Indo-Pacific")>>

\* C8 witness: the scenario has run and given its event.
C8_Witness == ScenarioRan /\ Len(enhanced_events) = 1

(***************************************************************************)
(* Claims about the region rule                                            *)
(***************************************************************************)
InLat(lo, hi) == Deg(lo) <= lat /\ lat <= Deg(hi)

TropicalInterior == Deg(-30) < lat /\ lat < Deg(30)

\* C9: classify_region is total and gives, for every (lat, lon): Southern
\* Ocean on lat in [-90,-30]; Northern Pacific/Atlantic on [30,70]; between
\* them Eastern Pacific on lon in [-180,-80], Atlantic on (-80,20],
\* Indo-Pacific on (20,180]; High Latitude Zone on what is left with
\* |lat| > 60; Open Ocean otherwise.  Boundaries go to the earliest rule.
C9_RegionCascade ==
    region /= "unclassified" =>
        /\ region \in {"Southern Ocean", "Northern Pacific/Atlantic",
                       "Eastern Pacific", "Atlantic", "Indo-Pacific",
                       "High Latitude Zone", "Open Ocean"}
        /\ region = "Southern Ocean" <=> InLat(-90, -30)
        /\ region = "Northern Pacific/Atlantic" <=> InLat(30, 70)
        /\ region = "Eastern Pacific" <=>
              TropicalInterior /\ Deg(-180) <= lon /\ lon <= Deg(-80)
        /\ region = "Atlantic" <=>
              TropicalInterior /\ Deg(-80) < lon /\ lon <= Deg(20)
        /\ region = "Indo-Pacific" <=>
              TropicalInterior /\ Deg(20) < lon /\ lon <= Deg(180)
        /\ region = "High Latitude Zone" <=> (lat < Deg(-90) \/ lat > Deg(70))
        /\ region = "Open Ocean" <=>
              TropicalInterior /\ (lon < Deg(-180) \/ lon > Deg(180))
        /\ lat = Deg(30) => region = "Northern Pacific/Atlantic"
        /\ lat = Deg(-30) => region = "Southern Ocean"
        /\ (lat = 0 /\ lon = Deg(-80)) => region = "Eastern Pacific"
        /\ (lat = 0 /\ lon = Deg(20)) => region = "Atlantic"

\* C9 witness: a boundary latitude has been classified.
C9_Witness ==
    /\ lat = Deg(30)
    /\ lon = Deg(20)
    /\ region = "Northern Pacific/Atlantic"

ValidCoordinate ==
    /\ Deg(-90) <= lat /\ lat <= Deg(90)
    /\ Deg(-180) <= lon /\ lon <= Deg(180)

\* C30: for every valid coordinate (-90 <= lat <= 90, -180 <= lon <= 180)
\* classify_region never returns Open Ocean, and it returns High Latitude
\* Zone only for lat > 70; Open Ocean is returned only for coordinates out
\* of range.
C30_ValidCoordinatesAreNeverOpenOcean ==
    region /= "unclassified" =>
        /\ ValidCoordinate => region /= "Open Ocean"
        /\ ValidCoordinate /\ region = "High Latitude Zone" => lat > Deg(70)
        /\ region = "Open Ocean" => ~ValidCoordinate

\* a valid coordinate at the eastern edge of the tropical band has been
\* classified
C30_Witness ==
    /\ ValidCoordinate
    /\ lat = 0
    /\ lon = Deg(180)
    /\ region = "Indo-Pacific"


(***************************************************************************)
(* Claims about the proximity index                                        *)
(***************************************************************************)
\* the lists a call that starts from nothing and is never interrupted can
\* return after its first k bins
RECURSIVE FreshRunLists(_, _)
FreshRunLists(frame, k) ==
    IF k = 0 THEN {<<>>}
    ELSE {head \o tail :
            head \in FreshRunLists(frame, k - 1),
            tail \in BinEncounterLists(frame, time_bins(frame)[k])}

UninterruptedRuns == FreshRunLists(prox_df, Len(time_bins(prox_df)))

\* C3: a call with resume enabled that follows a call killed after a
\* checkpoint loads the checkpointed encounters, runs the body of no bin
\* visited before that checkpoint, and returns a list an uninterrupted call
\* would return.
C3_ResumeContinuesFromCheckpoint ==
    hist.resumed =>
        /\ hist.loaded = hist.prior_events
        /\ hist.revisited \cap hist.prior_bins = {}
        /\ (pc = "done" => proximity_events \in UninterruptedRuns)

\* the bins that contributed encounters to a list
ContributingBins(events) == {to_datetime(e.time_bin) : e \in Range(events)}

\* C27: a call with resume enabled that follows a completed call on the
\* same input, with the finished output file present, loads the list that
\* call returned, runs the body of no bin that contributed encounters to
\* it, and returns the same list, no encounter appearing twice.
C27_ResumeOnCompletedOutputIsIdempotent ==
    hist.rerun =>
        /\ hist.loaded = hist.prior_result
        /\ hist.revisited \cap ContributingBins(hist.prior_result) = {}
        /\ (pc = "done" => proximity_events = hist.prior_result)

\* C4: between two bins of the loop, fewer than save_every bins have been
\* visited since the last completed checkpoint (or since the call began), and
\* a checkpoint once written holds the encounters accumulated up to it;
\* whatever the bins hold.
C4_CheckpointEverySaveEveryBins ==
    pc = "loop" =>
        /\ hist.since_ckpt < save_every
        /\ (hist.checkpointed => partial_file = CompleteFile(hist.ckpt_events))

\* C5: whenever the process is killed, the checkpoint file is absent or is
\* a complete checkpoint, never a truncated one.
C5_KillLeavesCompleteCheckpoint ==
    pc = "killed" => partial_file.state /= "truncated"

\* C6: every encounter has vessel1_mmsi < vessel2_mmsi.
C6_CanonicalVesselOrder ==
    \A n \in DOMAIN proximity_events :
        proximity_events[n].vessel1_mmsi < proximity_events[n].vessel2_mmsi

FixesOfVesselInBin(b, m) ==
    {k \in DOMAIN prox_df :
        prox_df[k].MMSI = m /\ TimeBin(prox_df[k].BaseDateTime) = b}

EncountersOfPairInBin(b, m1, m2) ==
    {n \in DOMAIN proximity_events :
        /\ proximity_events[n].time_bin = isoformat(b)
        /\ {proximity_events[n].vessel1_mmsi,
            proximity_events[n].vessel2_mmsi} = {m1, m2}}

\* C7: when a first call has returned, every two distinct vessels with
\* fixes in one bin have exactly one encounter for that bin if fixes of theirs
\* are closer than the threshold and none if all are farther; every encounter
\* is of two vessels with fixes in its bin, at a distance of at most the
\* threshold.
C7_OneEncounterPerNearPairAndBin ==
    (pc = "done" /\ runs = 1) =>
        /\ \A b \in Range(time_bins(prox_df)) : \A m1, m2 \in MMSIs :
              (/\ m1 < m2
               /\ FixesOfVesselInBin(b, m1) /= {}
               /\ FixesOfVesselInBin(b, m2) /= {}) =>
                  LET gaps == {HaversineMicroKm(prox_df[j], prox_df[k]) :
                                  j \in FixesOfVesselInBin(b, m1),
                                  k \in FixesOfVesselInBin(b, m2)}
                      count == Cardinality(EncountersOfPairInBin(b, m1, m2))
                  IN  /\ (\E g \in gaps : g < DistanceThresholdKm * 1000000)
                          => count = 1
                      /\ (\A g \in gaps : g > DistanceThresholdKm * 1000000)
                          => count = 0
        /\ \A n \in DOMAIN proximity_events :
              LET e == proximity_events[n]
              IN  /\ e.distance_km <= DistanceThresholdKm * 100
                  /\ e.vessel1_mmsi /= e.vessel2_mmsi
                  /\ FixesOfVesselInBin(e.time_bin.instant, e.vessel1_mmsi) /= {}
                  /\ FixesOfVesselInBin(e.time_bin.instant, e.vessel2_mmsi) /= {}

(***************************************************************************)
(* Claims about the scoring                                                *)
(***************************************************************************)
SubScoreKeys ==
    {"duration_score", "coverage_score", "eez_score", "fishing_score",
     "repeat_score"}

StoredSum(e) ==
    e.duration_score + e.coverage_score + e.eez_score + e.fishing_score
        + e.repeat_score

ScoresInUnitInterval(e) ==
    /\ \A key \in SubScoreKeys : 0 <= e[key] /\ e[key] <= 1000
    /\ 0 <= e.total_score /\ e.total_score <= 1000

\* C10 as stated: every scored event has its five stored sub-scores and its
\* total_score in [0, 1], and its total_score is the sum of the five stored
\* sub-scores.
C10_TotalIsSumOfStoredSubScores ==
    scored =>
        \A k \in DOMAIN dark_events :
            /\ ScoresInUnitInterval(dark_events[k])
            /\ dark_events[k].total_score = StoredSum(dark_events[k])

\* C10 as the code has it: every scored event has its five stored sub-scores
\* and its total_score in [0, 1]; each is rounded to three decimals on its
\* own, so total_score is within 0.001 of the sum of the stored sub-scores.
C10_TotalWithinRoundingOfStoredSubScores ==
    scored =>
        \A k \in DOMAIN dark_events :
            /\ ScoresInUnitInterval(dark_events[k])
            /\ Abs(dark_events[k].total_score - StoredSum(dark_events[k])) <= 1

\* a scored list with an event whose total_score is not the stored sum, and
\* one whose total_score is
C10_Witness ==
    /\ scored
    /\ \E k \in DOMAIN dark_events :
          dark_events[k].total_score /= StoredSum(dark_events[k])
    /\ \E k \in DOMAIN dark_events :
          dark_events[k].total_score = StoredSum(dark_events[k])

\* (-total_score, mmsi, start) of a comes no later than that of b
OrderKeyLeq(a, b) ==
    \/ a.total_score > b.total_score
    \/ /\ a.total_score = b.total_score
       /\ \/ a.mmsi < b.mmsi
          \/ a.mmsi = b.mmsi /\ a.start <= b.start

\* C11: the list score_all_events returns is ordered by total_score
\* descending, then mmsi, then start.
C11_OrderedByScoreThenMmsiThenStart ==
    scored =>
        \A j, k \in DOMAIN dark_events :
            j < k => OrderKeyLeq(dark_events[j], dark_events[k])

(***************************************************************************)
(* Claims about the context check                                          *)
(***************************************************************************)
\* the vessels other than the event's own that an encounter of the index
\* places within the radius of the event's location, within the time window
\* of its start or of its end
OtherVesselsNearby(event) ==
    {m \in {context_index[n][VesselField(VesselKeys[v], "mmsi")] :
               n \in DOMAIN context_index, v \in DOMAIN VesselKeys} :
        /\ m /= event.mmsi
        /\ \E n \in DOMAIN context_index, v \in DOMAIN VesselKeys :
              /\ context_index[n][VesselField(VesselKeys[v], "mmsi")] = m
              /\ VesselInRadius(context_index[n], VesselKeys[v], event.location)
              /\ \/ ~OutsideWindow(context_index[n], to_datetime(event.start))
                 \/ ~OutsideWindow(context_index[n], to_datetime(event.end))}

TransmittingListed(event) ==
    {event.nearby_vessel_details[n].mmsi : n \in DOMAIN event.nearby_vessel_details}

\* C12: when check_dark_event_context has returned, every event counts as
\* unique_nearby_vessels the other vessels nearby (never its own MMSI), its
\* continuously transmitting vessels are distinct vessels among them, and its
\* coverage_reliability is their number over max(1, unique_nearby_vessels),
\* to three decimals: in [0, 1], and 0 when no vessel is nearby.
C12_CoverageIsTransmittingOverNearby ==
    context_pc = "done" =>
        \A k \in DOMAIN context_events :
            LET event == context_events[k]
            IN  /\ event.unique_nearby_vessels = Cardinality(OtherVesselsNearby(event))
                /\ TransmittingListed(event) \subseteq OtherVesselsNearby(event)
                /\ event.continuously_transmitting_nearby
                      = Cardinality(TransmittingListed(event))
                /\ event.coverage_reliability
                      \in RoundSet(1000 * event.continuously_transmitting_nearby,
                                   Max(1, event.unique_nearby_vessels))
                /\ 0 <= event.coverage_reliability
                /\ event.coverage_reliability <= 1000
                /\ (event.unique_nearby_vessels = 0 => event.coverage_reliability = 0)

\* an event of vessel 1, itself in an encounter nearby, with two other
\* vessels nearby of which one transmitted: coverage_reliability 0.5
C12_Witness ==
    /\ context_pc = "done"
    /\ \E k \in DOMAIN context_events :
          /\ context_events[k].mmsi = 1
          /\ context_events[k].nearby_vessels_at_start > 2
          /\ context_events[k].unique_nearby_vessels = 2
          /\ context_events[k].continuously_transmitting_nearby = 1
          /\ context_events[k].coverage_reliability = 500

\* the fixes of a vessel in df_ais at the instants of a set
FixesOf(m, instants) ==
    {k \in DOMAIN df_ais : df_ais[k].MMSI = m /\ df_ais[k].BaseDateTime \in instants}

EventStart(event) == to_datetime(event.start)
EventEnd(event) == to_datetime(event.end)

AsEmitted(index) ==
    \A n \in DOMAIN index :
        DOMAIN index[n] = {"time_bin", "vessel1_mmsi", "vessel2_mmsi",
                           "vessel1_location", "vessel2_location", "distance_km"}

\* the vessels of the encounters within the window of an instant and the
\* radius of a place, one for each encounter and vessel key
EncounterVessels(index, target_location, target_time) ==
    {hit \in (DOMAIN index) \X Range(VesselKeys) :
        /\ ~OutsideWindow(index[hit[1]], target_time)
        /\ VesselInRadius(index[hit[1]], hit[2], target_location)}

\* C26: for every encounter list as build_proximity_index emits it and
\* every dark event, get_vessels_near_location and check_dark_event_context
\* complete without error, and the lookup returns one nearby record for
\* each encounter vessel within the time window and radius.
C26_EmittedIndexIsAccepted ==
    AsEmitted(context_index) =>
        /\ context_pc /= "raised"
        /\ context_pc = "done" =>
              \A k \in DOMAIN context_events :
                  /\ context_events[k].nearby_vessels_at_start
                        = Cardinality(EncounterVessels(
                              context_index, context_events[k].location,
                              EventStart(context_events[k])))
                  /\ context_events[k].nearby_vessels_at_end
                        = Cardinality(EncounterVessels(
                              context_index, context_events[k].location,
                              EventEnd(context_events[k])))

(***************************************************************************)
(* Claims about the clustering                                             *)
(***************************************************************************)
\* C13: every cluster summary has is_hotspot true exactly when its
\* event_count is at least 10 and its avg_suspicion_score at least 0.6.
C13_HotspotIffReportedCountAndAverage ==
    cluster_pc = "done" =>
        \A n \in DOMAIN cluster_summary :
            cluster_summary[n].is_hotspot
                <=> /\ cluster_summary[n].event_count >= HotspotMinEvents
                    /\ cluster_summary[n].avg_suspicion_score >= HotspotMinScore

(***************************************************************************)
(* Claims about the grid aggregation                                       *)
(***************************************************************************)
\* the cell of the claim: (floor(lat / size) * size, floor(lon / size) * size)
FlooredGridId(location) ==
    <<GridLine(GridIndexFloored(location[1])), GridLine(GridIndexFloored(location[2]))>>

\* C14: the cells returned are the floored cells of the events, each with
\* the number of events that fall into it, so the counts add up to the number
\* of events; and the cells come by count descending.
C14_CellsAreFlooredIntervals ==
    hexbin_pc = "done" =>
        /\ {hexbin_data[n].grid_id : n \in DOMAIN hexbin_data}
              = {FlooredGridId(hexbin_events[k].location) : k \in DOMAIN hexbin_events}
        /\ \A n \in DOMAIN hexbin_data :
              hexbin_data[n].event_count
                  = Cardinality({k \in DOMAIN hexbin_events :
                        FlooredGridId(hexbin_events[k].location) = hexbin_data[n].grid_id})
        /\ Sum([n \in DOMAIN hexbin_data |-> hexbin_data[n].event_count])
              = Len(hexbin_events)
        /\ \A j, k \in DOMAIN hexbin_data :
              j < k => hexbin_data[j].event_count >= hexbin_data[k].event_count

\* C15: on an empty list the grid aggregation (like the scoring and the
\* clustering before it) returns an empty collection and does not raise.
C15_EmptyListNeverRaises ==
    hexbin_events = <<>> =>
        /\ hexbin_pc /= "raised"
        /\ hexbin_data = <<>>

(***************************************************************************)
(* Claims about the coordination network                                   *)
(***************************************************************************)
\* C16: with no dark events the vessel graph is built without nodes and
\* main() gets empty results from it, build_vessel_network and
\* analyze_network_centrality not raising.
C16_EmptyGraphNeverRaises ==
    contextualized_events = <<>> =>
        /\ vessel_pc /= "raised"
        /\ centrality_scores = <<>>

\* C17: when the graph has exactly one node, the degree and betweenness
\* centrality of that node are 0 and identify_coordinators does not list it.
C17_SingleNodeHasZeroCentralities ==
    (net_pc = "identified" /\ Len(network.nodes) = 1) =>
        /\ \A n \in NodeSet(network) :
              /\ degree_centrality(network)[n].num = 0
              /\ betweenness_centrality(network)[n].num = 0
              /\ closeness_centrality(network)[n].num = 0
        /\ coordinators = <<>>

\* C18: after build_network the graph has no self-loops, every edge weight
\* is a strictly positive integer, and the weight of an edge is the number
\* of entries in its encounter log.
C18_NoSelfLoopsWeightCountsEncounters ==
    net_pc \in {"built", "identified"} =>
        \A e \in DOMAIN network.edges :
            /\ Cardinality(e) = 2
            /\ network.edges[e].weight \in Nat \ {0}
            /\ network.edges[e].weight = Len(network.edges[e].encounters)

\* a dark period of a vessel whose own fix lies in the window at the place
\* of the event, and an edge met more than once
C18_Witness ==
    /\ net_pc = "built"
    /\ \E k \in DOMAIN suspicious_events, j \in DOMAIN all_ais_data :
          /\ all_ais_data[j].mmsi = suspicious_events[k].mmsi
          /\ all_ais_data[j].timestamp >= suspicious_events[k].start_time
          /\ all_ais_data[j].timestamp <= suspicious_events[k].end_time
          /\ all_ais_data[j].lat = suspicious_events[k].start_lat
    /\ \E e \in DOMAIN network.edges : network.edges[e].weight >= 2

\* the vessels of the suspicious events
EventVessels == {suspicious_events[k].mmsi : k \in DOMAIN suspicious_events}

\* the fixes of another vessel in the window of an event that lie within
\* `metres` a degree times their difference of latitude of the threshold
FixesNearby(event, metres) ==
    {j \in DOMAIN all_ais_data :
        /\ all_ais_data[j].mmsi /= event.mmsi
        /\ all_ais_data[j].timestamp >= event.start_time
        /\ all_ais_data[j].timestamp <= event.end_time
        /\ Abs(all_ais_data[j].lat - event.start_lat) * metres
              <= ProximityThresholdKm * 100000}

\* the vessels that are surely, and that may be, near one of the events
SurelyNearby ==
    {all_ais_data[j].mmsi :
        j \in UNION {FixesNearby(suspicious_events[k], MetresPerDegreeMax) :
                        k \in DOMAIN suspicious_events}}

MaybeNearby ==
    {all_ais_data[j].mmsi :
        j \in UNION {FixesNearby(suspicious_events[k], MetresPerDegreeMin) :
                        k \in DOMAIN suspicious_events}}

NodeAttributes == {"event_count", "total_risk", "avg_risk", "is_fishing"}

\* C24 as stated: after build_network the nodes of the graph are exactly
\* the MMSIs of the suspicious events, with no node for a vessel that
\* appears only in the fix stream, and every node carries event_count,
\* total_risk, avg_risk and is_fishing.
C24_NodesAreTheEventVessels ==
    net_pc = "built" =>
        /\ NodeSet(network) = EventVessels
        /\ \A n \in NodeSet(network) : NodeAttributes \subseteq DOMAIN network.attrs[n]

\* C24, amended: after build_network the nodes of the graph are the MMSIs
\* of the suspicious events, one node each, together with every other
\* vessel that has a fix within the threshold of an event during its
\* window; a node of the first kind carries event_count (the number of its
\* events), total_risk (the sum of their risk_score), avg_risk and
\* is_fishing, and a node of a vessel without events carries no attribute.
C24_NodesAreTheEventVesselsAndTheirNeighbours ==
    net_pc = "built" =>
        /\ EventVessels \cup SurelyNearby \subseteq NodeSet(network)
        /\ NodeSet(network) \subseteq EventVessels \cup MaybeNearby
        /\ \A j, k \in DOMAIN network.nodes : j /= k => network.nodes[j] /= network.nodes[k]
        /\ \A n \in EventVessels :
              /\ NodeAttributes \subseteq DOMAIN network.attrs[n]
              /\ network.attrs[n].event_count
                    = Cardinality({k \in DOMAIN suspicious_events :
                                      suspicious_events[k].mmsi = n})
              /\ network.attrs[n].total_risk
                    = 500 * network.attrs[n].event_count
              /\ network.attrs[n].avg_risk
                    = [sum |-> network.attrs[n].total_risk,
                       count |-> network.attrs[n].event_count]
        /\ \A n \in NodeSet(network) \ EventVessels : DOMAIN network.attrs[n] = {}

\* vessel 3 has no event, had a fix near an event of another vessel, and is
\* a node without attributes
C24_Witness ==
    /\ net_pc = "built"
    /\ EventVessels /= {}
    /\ 3 \notin EventVessels
    /\ 3 \in SurelyNearby
    /\ 3 \in NodeSet(network)
    /\ DOMAIN network.attrs[3] = {}

\* two groups of five nodes, every two nodes of a group joined, and one edge
\* between the groups
TwoCliquesWithBridge(G) ==
    /\ NodeSet(G) = 1..10
    /\ DOMAIN G.edges = {e \in SUBSET (1..5) \cup SUBSET (6..10) : Cardinality(e) = 2}
                            \cup {{5, 6}}

HighestBetweenness(list) ==
    {k \in DOMAIN list :
        \A j \in DOMAIN list :
            list[k].betweenness_centrality >= list[j].betweenness_centrality}

\* the role the thresholds give to centralities b and d
RoleByThresholds(b, d) ==
    CHOOSE role \in {"CENTRAL_COORDINATOR", "BRIDGE_COORDINATOR",
                     "HUB_COORDINATOR", "MINOR_COORDINATOR"} :
        /\ role = "CENTRAL_COORDINATOR" <=> (10 * b.num > b.den /\ 10 * d.num > 2 * d.den)
        /\ role = "BRIDGE_COORDINATOR" <=>
              /\ ~(10 * b.num > b.den /\ 10 * d.num > 2 * d.den)
              /\ 100 * b.num > 5 * b.den
        /\ role = "HUB_COORDINATOR" <=>
              /\ ~(10 * b.num > b.den /\ 10 * d.num > 2 * d.den)
              /\ ~(100 * b.num > 5 * b.den)
              /\ 100 * d.num > 15 * d.den

\* C19 as stated: on two 5-cliques joined by one bridge edge the bridge end
\* with the highest betweenness is listed with the role BRIDGE.
C19_BridgeEndpointIsBridgeCoordinator ==
    (net_pc = "identified" /\ TwoCliquesWithBridge(network)) =>
        /\ HighestBetweenness(coordinators) /= {}
        /\ \A k \in HighestBetweenness(coordinators) :
              /\ coordinators[k].mmsi \in {5, 6}
              /\ coordinators[k].role = "BRIDGE_COORDINATOR"

\* C19, amended: every listed coordinator carries the role its betweenness
\* and degree centrality get from the thresholds (more than 0.1 and more
\* than 0.2: CENTRAL; else more than 0.05: BRIDGE; else degree more than
\* 0.15: HUB; else MINOR), and on two 5-cliques joined by one bridge edge
\* the bridge ends have the highest betweenness and are listed as CENTRAL.
C19_BridgeEndpointIsCentralCoordinator ==
    net_pc = "identified" =>
        /\ \A k \in DOMAIN coordinators :
              coordinators[k].role =
                  RoleByThresholds(betweenness_centrality(network)[coordinators[k].mmsi],
                                   degree_centrality(network)[coordinators[k].mmsi])
        /\ TwoCliquesWithBridge(network) =>
              /\ HighestBetweenness(coordinators) /= {}
              /\ \A k \in HighestBetweenness(coordinators) :
                    /\ coordinators[k].mmsi \in {5, 6}
                    /\ coordinators[k].role = "CENTRAL_COORDINATOR"

C19_Witness ==
    /\ net_pc = "identified"
    /\ TwoCliquesWithBridge(network)
    /\ \E k \in DOMAIN coordinators :
          /\ coordinators[k].mmsi = 5
          /\ coordinators[k].betweenness_centrality = 5556
          /\ coordinators[k].degree_centrality = 5556

(***************************************************************************)
(* Claims about the comprehensive detector                                 *)
(***************************************************************************)
\* the segments of the frame: a vessel and the place of the later fix among
\* its fixes in time order
Segments ==
    {seg \in {fishing_data[k].mmsi : k \in DOMAIN fishing_data} \X (2..Len(fishing_data)) :
        seg[2] <= Len(VesselData(fishing_data, seg[1]))}

SegmentTotals(seg) ==
    TotalRisks(mpa_data, VesselData(fishing_data, seg[1])[seg[2] - 1],
               VesselData(fishing_data, seg[1])[seg[2]])

\* the events emitted for a segment
SegmentEmitted(seg) ==
    LET vessel_data == VesselData(fishing_data, seg[1])
    IN  {k \in DOMAIN suspicious_segments :
            /\ suspicious_segments[k].mmsi = seg[1]
            /\ suspicious_segments[k].start_time = vessel_data[seg[2] - 1].timestamp
            /\ suspicious_segments[k].end_time = vessel_data[seg[2]].timestamp
            /\ suspicious_segments[k].start_lat = vessel_data[seg[2] - 1].lat
            /\ suspicious_segments[k].end_lat = vessel_data[seg[2]].lat
            /\ suspicious_segments[k].current_speed_knots = vessel_data[seg[2]].speed
            /\ suspicious_segments[k].fishing_detected = (vessel_data[seg[2]].is_fishing = 1)}

\* 0.3 and 0.2995, the least sum that rounds to 0.3
RiskThreshold == 3 * (RiskUnit \div 10)
RoundedRiskThreshold == RiskThreshold - RiskUnit \div 2000

\* C20 as stated: a segment is emitted exactly when the weighted sum of its
\* seven risk factors is at least 0.3.
C20_EmittedIffWeightedSumReachesThreshold ==
    detector_pc = "done" =>
        \A seg \in Segments :
            /\ (\A total \in SegmentTotals(seg) : total >= RiskThreshold)
                  => SegmentEmitted(seg) /= {}
            /\ (\A total \in SegmentTotals(seg) : total < RiskThreshold)
                  => SegmentEmitted(seg) = {}

\* C20, amended: a segment is emitted exactly when the weighted sum of its
\* seven risk factors, rounded to three decimals, is at least 0.3: every
\* segment with a sum of 0.3 or more is emitted, none with a sum below
\* 0.2995 is, and every emitted event reports a total_risk_score of at
\* least 0.3 and belongs to a segment.
C20_EmittedIffRoundedSumReachesThreshold ==
    detector_pc = "done" =>
        /\ \A seg \in Segments :
              /\ (\A total \in SegmentTotals(seg) : total >= RiskThreshold)
                    => SegmentEmitted(seg) /= {}
              /\ (\A total \in SegmentTotals(seg) : total < RoundedRiskThreshold)
                    => SegmentEmitted(seg) = {}
        /\ \A k \in DOMAIN suspicious_segments :
              /\ suspicious_segments[k].total_risk_score >= 300
              /\ \E seg \in Segments :
                    /\ k \in SegmentEmitted(seg)
                    /\ \E total \in SegmentTotals(seg) :
                          suspicious_segments[k].total_risk_score \in RoundedRisks(total)

\* a segment emitted with a weighted sum between 0.2995 and 0.3
C20_Witness ==
    /\ detector_pc = "done"
    /\ \E seg \in Segments :
          /\ \A total \in SegmentTotals(seg) :
                total >= RoundedRiskThreshold /\ total < RiskThreshold
          /\ \E k \in SegmentEmitted(seg) : suspicious_segments[k].total_risk_score = 300


\* the current fix of a segment
CurrentFix(seg) == VesselData(fishing_data, seg[1])[seg[2]]

\* C21: for a segment whose current fix is inside an MPA and is fishing, the
\* detector computes fishing_risk = 1.0 and mpa_risk = 0.8, a
\* total_risk_score of at least 0.44, and emits the segment with
\* violation_type ILLEGAL_FISHING_IN_MPA.
C21_FishingInsideMpaIsIllegalFishingInMpa ==
    detector_pc = "done" =>
        \A seg \in Segments :
            /\ InsideMpa(mpa_data, CurrentFix(seg).lat, CurrentFix(seg).lon)
            /\ CurrentFix(seg).is_fishing = 1
            => /\ SegmentEmitted(seg) /= {}
               /\ \A k \in SegmentEmitted(seg) :
                     /\ suspicious_segments[k].fishing_risk = 1000
                     /\ suspicious_segments[k].mpa_risk = 800
                     /\ suspicious_segments[k].total_risk_score >= 440
                     /\ suspicious_segments[k].violation_type = "ILLEGAL_FISHING_IN_MPA"

\* the risk factors _calculate_comprehensive_risk can return for a segment
SegmentRiskFactors(seg) ==
    calculate_comprehensive_risk(mpa_data, VesselData(fishing_data, seg[1])[seg[2] - 1],
                                 CurrentFix(seg))

MpaViolationTypes == {"ILLEGAL_FISHING_IN_MPA", "MPA_INTRUSION"}

SegmentGap(seg) ==
    CurrentFix(seg).timestamp - VesselData(fishing_data, seg[1])[seg[2] - 1].timestamp

\* thousandths as RiskUnit-ths
Thousandths(k) == k * (RiskUnit \div 1000)

FishingViolationTypes ==
    {"FISHING_WITH_AIS_OFF", "SUSPICIOUS_FISHING_BEHAVIOR", "ILLEGAL_FISHING_IN_MPA"}

\* C29: in every emitted segment a violation_type that names fishing
\* (FISHING_WITH_AIS_OFF, SUSPICIOUS_FISHING_BEHAVIOR or
\* ILLEGAL_FISHING_IN_MPA) is assigned only when the same record has
\* fishing_detected = true; a fix whose is_fishing is unknown (-1) or
\* known-false is never given a fishing violation type.
C29_FishingTypesOnlyWhenFishingDetected ==
    /\ \A k \in DOMAIN suspicious_segments :
          suspicious_segments[k].violation_type \in FishingViolationTypes
              => suspicious_segments[k].fishing_detected
    /\ detector_pc = "done" =>
          \A seg \in Segments :
              CurrentFix(seg).is_fishing /= 1
                  => \A k \in SegmentEmitted(seg) :
                        suspicious_segments[k].violation_type \notin FishingViolationTypes

(***************************************************************************)
(* Claims about the dark period detector                                   *)
(***************************************************************************)
\* the consecutive fixes of one vessel, in its order of time
PeriodGaps ==
    {seg \in {ais_df[k].mmsi : k \in DOMAIN ais_df} \X (2..Len(ais_df)) :
        seg[2] <= Len(VesselData(ais_df, seg[1]))}

GapSeconds(seg) ==
    VesselData(ais_df, seg[1])[seg[2]].timestamp
        - VesselData(ais_df, seg[1])[seg[2] - 1].timestamp

\* C22: detect_dark_periods emits no dark period for a gap of exactly the
\* threshold, and every dark period it emits has duration_hours strictly
\* greater than threshold_hours.
C22_DarkPeriodsExceedThreshold ==
    period_pc = "done" =>
        /\ \A k \in DOMAIN dark_periods : dark_periods[k].duration_hours > ThresholdSeconds
        /\ \A seg \in PeriodGaps :
              GapSeconds(seg) = ThresholdSeconds
                  => ~\E k \in DOMAIN dark_periods :
                        /\ dark_periods[k].mmsi = seg[1]
                        /\ dark_periods[k].end_time
                              = VesselData(ais_df, seg[1])[seg[2]].timestamp
                        /\ dark_periods[k].start_time
                              = VesselData(ais_df, seg[1])[seg[2] - 1].timestamp
=============================================================================
